---- MODULE Spec2Model ----
(***************************************************************************)
(* Grandscatter: the orthonormal projection matrix (linalg.ts,             *)
(* Projection.ts), the axis-handle overlay (Overlay.ts) and the            *)
(* demand-driven render scheduler of Scatterplot.ts.                       *)
(*                                                                         *)
(* Numbers.  The source computes in floating point; the model computes in  *)
(* exact real arithmetic.  A matrix row is a record [w, unit]: an integer  *)
(* vector w and a flag.  With unit = TRUE the row is w / |w| (w is kept    *)
(* primitive, i.e. divided by the gcd of its entries); with unit = FALSE   *)
(* the row is the integer vector w itself.  Sequences are 1-based, so the  *)
(* source's row i is row i+1 here and the source's column 2 (depth) is     *)
(* column DepthCol = 3.                                                    *)
(***************************************************************************)
EXTENDS Integers, Sequences, FiniteSets, TLC

\* ------------------------------------------------------------------ bounds
\* Largest absolute value of an entry of a vector handed to setAxis /
\* setMatrix, and of a drag delta.
MaxCoord == 1
\* setAxis and drag are taken only while every row w/|w| of the matrix has
\* |w|^2 <= MaxSqNorm (keeps the reachable set of rational directions finite).
MaxSqNorm == 1

\* Dimensions of the Projection objects that are constructed.
Dims == {2, 3}
\* 1-based index of the source's column 2 (the depth column).
DepthCol == 3

\* Largest number of requestAnimationFrame handles handed out in one behaviour.
MaxFrames == 2
\* Largest number of #markDirty calls counted between two frame callbacks.
MaxMarks == 2
\* Largest number of data points of a loaded data set.
MaxPoints == 1
\* Largest size of a matrix handed to a linalg function called on its own.
MaxDim == 3
\* Polygon vertices have coordinates 0, 2, .., 2 * MaxGrid, points 0 .. 2 * MaxGrid.
MaxGrid == 2
\* Largest number of vertices of a lasso polygon.
MaxPoly == 4
\* Number of slots of the positions buffer in the multi-slot calls.
MaxSlots == 3
\* Most vertices a lasso drag captures.
MaxVertices == 3
\* Most points of a data set in the buffer specification.
MaxBufferPoints == 3
\* Most points of a frame in the frame-builder calls.
MaxRenderPoints == 3
\* Depths, camera positions and focal lengths are integers up to MaxDepth.
MaxDepth == 2
\* Number of distinct functions handed to on().
MaxListeners == 2
\* Most on() calls made for one event in one behaviour.
MaxOn == 3
\* Largest magnitude of a matrix entry in the bounded-magnitude arithmetic:
\* a sum, product or quotient beyond it is +Infinity or -Infinity.
MaxFloat == 100

VARIABLES
    \* ---- Projection
    ndim,       \* Projection.#ndim
    matrix,     \* Projection.#matrix : sequence of ndim rows
    \* ---- Scatterplot
    data,       \* #data: NoData, or [ndim, npoint, ncat] of the loaded data set
    opts,       \* #opts: option name -> value
    canvas,     \* client size of the canvas (width = height), read by resize/#render
    visible,    \* #visibleCategories: Null or a set of category indices
    legend,     \* #legend: NoLegend, or the Legend's `selected` set
    glCapacity, \* vertices the #glPositions/#glColors/#glSizes buffers hold
    playing,    \* #playing
    pendingFrame, \* #pendingFrame
    rendered,   \* handle of the frame that last wrote the buffers / scales / overlay
    \* ---- browser
    rafQueue,   \* handles of the animation-frame callbacks requested and not yet run
    nextHandle, \* the handle the next requestAnimationFrame returns
    \* ---- history (what the last step did)
    lastOp,     \* the operation or callback that produced this state; for a
                \* frame callback, i is its handle and v[1] the marks it served
    inputOk,    \* the rows last handed to orthogonalize were independent
    events,     \* the events emitted by the last step, in order
    drawn,      \* the frame the last step drew (NoFrame if it drew none)
    renders,    \* number of #render calls made by the last step
    dirty,      \* a mutation was made since the last frame was drawn
    marks,      \* #markDirty calls made while playing since the last frame
                \* callback or pause()
    voided,     \* handles that were pending when pause() was called
    paused,     \* pause() was called and play() has not been called since
    \* ---- a library function called on its own
    call,       \* the function and its arguments (NoCall before any call)
    result,     \* what it returned
    \* ---- the caller of a Projection
    held,       \* the array the caller last received from or handed to the Projection
    lasso,      \* the Lasso object, the pointers of the browser and the step's callbacks
    emitter     \* the Emitter: #listeners, the on()/unsubscribe calls made and the
                \* last step's listener invocations

svars == <<data, opts, canvas, visible, legend, glCapacity, playing, pendingFrame,
           rendered, rafQueue, nextHandle, events, drawn, renders, dirty, marks,
           voided, paused>>
vars == <<ndim, matrix, lastOp, inputOk, data, opts, canvas, visible, legend,
          glCapacity, playing, pendingFrame, rendered, rafQueue, nextHandle,
          events, drawn, renders, dirty, marks, voided, paused, call, result, held, lasso, emitter>>
fvars == <<call, result>>

\* ------------------------------------------------------- integer helpers
Abs(x) == IF x < 0 THEN -x ELSE x

RECURSIVE GCD(_, _)
GCD(a, b) == IF b = 0 THEN Abs(a) ELSE GCD(b, a % Abs(b))

RECURSIVE SumSeq(_, _)
SumSeq(s, k) == IF k = 0 THEN 0 ELSE s[k] + SumSeq(s, k - 1)

RECURSIVE GcdSeq(_, _)
GcdSeq(s, k) == IF k = 0 THEN 0 ELSE GCD(s[k], GcdSeq(s, k - 1))

\* w divided by the gcd of its entries (the zero vector is left alone).
Primitive(w) ==
    LET g == GcdSeq(w, Len(w))
    IN  IF g = 0 THEN w ELSE [c \in 1..Len(w) |-> w[c] \div g]

Raw(v) == [w |-> v, unit |-> FALSE]

\* The square of the factor by which w is divided: |w|^2 for a unit row.
SqNorm(r) == IF r.unit THEN SumSeq([c \in 1..Len(r.w) |-> r.w[c] * r.w[c]], Len(r.w)) ELSE 1

\* ------------------------------------------------------------- linalg.ts
identity(n) == [i \in 1..n |-> [w |-> [j \in 1..n |-> IF i = j THEN 1 ELSE 0], unit |-> TRUE]]

clone(m) == [i \in 1..Len(m) |-> m[i]]

\* dot(u, v) up to the positive factor 1 / sqrt(SqNorm(u) * SqNorm(v)).
dot(u, v) == SumSeq([c \in 1..Len(u.w) |-> u.w[c] * v.w[c]], Len(u.w))

\* Variant: normalizeVec that returns its argument.
normalizeVec_None(v) == v

\* normalizeVec: a vector of norm <= 0 is returned as it is.
normalizeVec(v) ==
    IF dot(v, v) <= 0 THEN v ELSE [w |-> Primitive(v.w), unit |-> TRUE]

\* Variant: the inner loop subtracts nothing.
subProjection_None(mi, mj) == mi

\* One pass of the inner loop body of orthogonalize:
\*   d = dot(mj, mi); dd = dot(mj, mj); if (dd > 0) mi = sub(mi, scale(d/dd, mj)).
\* d/dd * mj does not depend on the length of mj.  The difference is kept as
\* the integer vector dd*mi - d*mj, which is the exact result times the
\* positive factor dd * |mi.w|: exact when it is zero, and otherwise exact in
\* direction, which is all that the normalizeVec closing the outer loop reads.
subProjection(mi, mj) ==
    LET d  == dot(mj, mi)
        dd == dot(mj, mj)
    IN  IF dd > 0 /\ d # 0
        THEN Raw(Primitive([c \in 1..Len(mi.w) |-> dd * mi.w[c] - d * mj.w[c]]))
        ELSE mi

\* Variant: a swap that overwrites row a and keeps row b.
swapRows_Copy(m, a, b) == [m EXCEPT ![a] = m[b]]

swapRows(m, a, b) ==
    [i \in 1..Len(m) |-> IF i = a THEN m[b] ELSE IF i = b THEN m[a] ELSE m[i]]

\* Variant: the inner loop subtracts the projection onto row 0 only.
innerLoop_FirstOnly(m, i, j) == [m EXCEPT ![i] = subProjection(m[i], m[1])]

\* for (j = 0; j < i; j++) matrix[i] = matrix[i] - proj onto matrix[j]
RECURSIVE innerLoop(_, _, _)
innerLoop(m, i, j) ==
    IF j >= i THEN m
    ELSE innerLoop([m EXCEPT ![i] = subProjection(m[i], m[j])], i, j + 1)

\* for (i = 1; i < n; i++) { inner loop; matrix[i] = normalizeVec(matrix[i]) }
RECURSIVE outerLoop(_, _)
outerLoop(m, i) ==
    IF i > Len(m) THEN m
    ELSE LET p == innerLoop(m, i, 1)
         IN  outerLoop([p EXCEPT ![i] = normalizeVec(p[i])], i + 1)

\* Variant: orthogonalize without the swap back.
orthogonalize_NoSwapBack(m, priorityRowIndex) ==
    LET s  == swapRows(m, 1, priorityRowIndex)
    IN  outerLoop([s EXCEPT ![1] = normalizeVec(s[1])], 2)

orthogonalize(m, priorityRowIndex) ==
    LET s  == swapRows(m, 1, priorityRowIndex)
        s0 == [s EXCEPT ![1] = normalizeVec(s[1])]
    IN  swapRows(outerLoop(s0, 2), 1, priorityRowIndex)

\* circularBasis for ndim <= 2 (the identity).  For ndim > 2 its entries mix
\* several square roots and lie outside the row representation used here.
circularBasis(n) == identity(n)

\* ---------------------------------------------------------- Projection.ts
\* Sign of  sum_k c_k / sqrt(D_k)  for a sequence of pairs <<c_k, D_k>> with
\* D_k > 0 and at most three non-zero c_k: the sign test "dotProduct < 0" of
\* setAxis, decided exactly.  The positive and the negative terms are
\* compared through their squares c^2/D, brought to a common denominator.
RECURSIVE LcmDen(_, _)
LcmDen(t, k) ==
    IF k = 0 THEN 1
    ELSE LET l == LcmDen(t, k - 1)
         IN  IF t[k][1] = 0 THEN l ELSE (l \div GCD(l, t[k][2])) * t[k][2]

\* sign(sqrt(a) + sqrt(b) - sqrt(c)) for integers a, b, c >= 0
SignTwoOne(a, b, c) ==
    LET t == c - a - b
    IN  IF t < 0 THEN 1
        ELSE IF 4 * a * b > t * t THEN 1
        ELSE IF 4 * a * b < t * t THEN -1 ELSE 0

SignOfSum(t) ==
    LET n   == Len(t)
        L   == LcmDen(t, n)
        sq  == [k \in 1..n |-> t[k][1] * t[k][1] * (L \div t[k][2])]
        g   == GcdSeq(sq, n)
        x   == [k \in 1..n |-> IF g = 0 THEN 0 ELSE sq[k] \div g]
        P   == {k \in 1..n : t[k][1] > 0}
        N   == {k \in 1..n : t[k][1] < 0}
        sumOver(S) == SumSeq([k \in 1..n |-> IF k \in S THEN x[k] ELSE 0], n)
        one(S) == CHOOSE k \in S : TRUE
        two(S) == CHOOSE pr \in S \X S : pr[1] < pr[2]
    IN  IF N = {} THEN (IF P = {} THEN 0 ELSE 1)
        ELSE IF P = {} THEN -1
        ELSE IF Cardinality(P) = 1 /\ Cardinality(N) = 1
             THEN (IF sumOver(P) > sumOver(N) THEN 1
                   ELSE IF sumOver(P) < sumOver(N) THEN -1 ELSE 0)
        ELSE IF Cardinality(P) = 2 /\ Cardinality(N) = 1
             THEN SignTwoOne(x[two(P)[1]], x[two(P)[2]], x[one(N)])
        ELSE -SignTwoOne(x[two(N)[1]], x[two(N)[2]], x[one(P)])

\* Variant: getMatrix that hands the rows out in reverse order.
getMatrix_Reversed(m) ==
    [rows |-> [i \in 1..Len(m) |-> m[Len(m) + 1 - i]], aliased |-> FALSE]

\* getMatrix(): clone(this.#matrix), an array that shares nothing with #matrix
getMatrix(m) == [rows |-> clone(m), aliased |-> FALSE]

\* setMatrix(m): this.#matrix = orthogonalize(clone(m))  (priority row 0)
setMatrix(m) == orthogonalize(clone(m), 1)

\* getAxis(i): this.#matrix[i].slice()
getAxis(m, i) == m[i]

\* Variant: flipAxis that negates column i.
flipAxis_Column(m, i) ==
    [j \in 1..Len(m) |->
        [w |-> [c \in 1..Len(m) |-> IF c = i THEN -(m[j].w[c]) ELSE m[j].w[c]],
         unit |-> m[j].unit]]

\* flipAxis(i): this.#matrix[i][j] *= -1 for every j
flipAxis(m, i) ==
    [m EXCEPT ![i] = [w |-> [j \in 1..Len(m) |-> -(m[i].w[j])], unit |-> m[i].unit]]

\* The column-2 entries, one per row, as pairs <<numerator, squared denominator>>.
depthColumn(m) == [j \in 1..Len(m) |-> <<m[j].w[DepthCol], SqNorm(m[j])>>]

\* dotProduct += oldCol2[j] * this.#matrix[j][2]; the test dotProduct < 0
depthFlipped(oldCol2, m) ==
    SignOfSum([j \in 1..Len(m) |->
        <<oldCol2[j][1] * m[j].w[DepthCol], oldCol2[j][2] * SqNorm(m[j])>>]) < 0

\* this.#matrix[j][2] *= -1 for every j
negateDepthColumn(m) ==
    [j \in 1..Len(m) |->
        [w |-> [c \in 1..Len(m) |-> IF c = DepthCol THEN -(m[j].w[c]) ELSE m[j].w[c]],
         unit |-> m[j].unit]]

\* Variant: setAxis without the depth-sign correction.
setAxis_NoDepthFix(m, i, vec) == orthogonalize([m EXCEPT ![i] = Raw(vec)], i)

\* setAxis(i, vec)
setAxis(m, i, vec) ==
    LET n  == Len(m)
        m1 == [m EXCEPT ![i] = Raw(vec)]
        m2 == orthogonalize(m1, i)
    IN  IF n >= 3 /\ depthFlipped(depthColumn(m), m2)
        THEN negateDepthColumn(m2)
        ELSE m2

\* Variant: axisZSigns that counts a zero entry as -1.
axisZSigns_Strict(m) ==
    IF Len(m) < 3 THEN [j \in 1..Len(m) |-> 1]
    ELSE [j \in 1..Len(m) |-> IF m[j].w[DepthCol] > 0 THEN 1 ELSE -1]

\* axisZSigns()
axisZSigns(m) ==
    IF Len(m) < 3 THEN [j \in 1..Len(m) |-> 1]
    ELSE [j \in 1..Len(m) |-> IF m[j].w[DepthCol] >= 0 THEN 1 ELSE -1]

\* constructor(ndim, init?): circularBasis(ndim), then setMatrix(init) if given
NoInit == <<>>
newProjection(n, init) == IF init = NoInit THEN circularBasis(n) ELSE setMatrix(init)

\* ------------------------------------------------- storage of the arrays
\* Which arrays a matrix value lives in: the store of the outer array and the
\* store of its row arrays.  "own" is reachable from the Projection only,
\* "caller" from the caller, "fresh" is newly allocated by the call.
OwnRef == [outer |-> "own", rows |-> "own"]
CallerRef == [outer |-> "caller", rows |-> "caller"]
Reaches(r, store) == r.outer = store \/ r.rows = store

\* Variant: a clone that copies the outer array only.
refClone_Shallow(r) == [outer |-> "fresh", rows |-> r.rows]

\* clone(m): m.map((row) => row.slice())
refClone(r) == [outer |-> "fresh", rows |-> "fresh"]

\* row.slice() / vec.slice()
refSlice(store) == "fresh"

\* orthogonalize works in the array it is given and returns it
refOrthogonalize(r) == r

\* getMatrix() returns clone(this.#matrix)
getMatrixRef == refClone(OwnRef)

\* getAxis(i) returns this.#matrix[i].slice()
getAxisRef == refSlice(OwnRef.rows)

\* setMatrix(m): the array orthogonalize writes, which becomes this.#matrix
setMatrixRef(arg) == refOrthogonalize(refClone(arg))

\* setAxis(i, vec): this.#matrix[i] = vec.slice(), written by the depth fix
setAxisRef(vec) == refSlice(vec)

\* ---------------------------------------------------------------- inputs
Coords == -MaxCoord..MaxCoord
Vectors(n) == [1..n -> Coords]
\* Matrices handed to the constructor and to setMatrix: the identity with one
\* row replaced by a vector of non-negative entries or negated (independent,
\* dependent, zero and reflected rows).
rawIdentity(n) == [i \in 1..n |-> Raw([j \in 1..n |-> IF i = j THEN 1 ELSE 0])]
MatrixInputs(n) ==
    {[rawIdentity(n) EXCEPT ![k] = Raw(v)] : k \in 1..n, v \in [1..n -> 0..MaxCoord]}
    \cup {[rawIdentity(n) EXCEPT ![k] = Raw([j \in 1..n |-> IF j = k THEN -1 ELSE 0])] : k \in 1..n}

\* Overlay drag: axis = getAxis(i); axis[0] += dx; axis[1] += dy.  The
\* data-space delta (dx, dy) is a pair of reals; the model takes it in units
\* of 1/|w| of the dragged row w/|w|, so that the sum is again an integer
\* vector over the same denominator (setAxis reads only its direction).
dragVector(m, i, dx, dy) ==
    [c \in 1..Len(m) |->
        IF c = 1 THEN m[i].w[c] + dx ELSE IF c = 2 THEN m[i].w[c] + dy ELSE m[i].w[c]]

\* ---------------------------------------------------- claim-side predicates
RECURSIVE Det(_)
Det(a) ==
    LET n == Len(a)
        minor(c) == [i \in 1..(n - 1) |->
                        [j \in 1..(n - 1) |-> IF j < c THEN a[i + 1][j] ELSE a[i + 1][j + 1]]]
        term(c) == (IF c % 2 = 1 THEN 1 ELSE -1) * a[1][c] * Det(minor(c))
    IN  IF n = 1 THEN a[1][1]
        ELSE SumSeq([c \in 1..n |-> IF a[1][c] = 0 THEN 0 ELSE term(c)], n)

Independent(m) == Det([i \in 1..Len(m) |-> m[i].w]) # 0

Orthonormal(m) ==
    /\ \A i \in 1..Len(m) : m[i].unit /\ dot(m[i], m[i]) > 0
    /\ \A i, j \in 1..Len(m) : i # j => dot(m[i], m[j]) = 0

HeightOk(m) == \A i \in 1..Len(m) : SqNorm(m[i]) <= MaxSqNorm

\* ---------------------------------------------------- Lasso: pointsInPolygon
\* A polygon is a sequence of vertices <<x, y>>; positions is the interleaved
\* buffer <<x0, y0, x1, y1, ..>>; order maps a render slot to a data index.
\* Slots are 0-based as in the source: slot si reads positions[2 si + 1] and
\* positions[2 si + 2] of the 1-based sequence.
polygonMin(polygon, c) ==
    CHOOSE v \in {polygon[k][c] : k \in 1..Len(polygon)} :
        \A k \in 1..Len(polygon) : v <= polygon[k][c]
polygonMax(polygon, c) ==
    CHOOSE v \in {polygon[k][c] : k \in 1..Len(polygon)} :
        \A k \in 1..Len(polygon) : v >= polygon[k][c]

\* (yi > y) !== (yj > y) && x < ((xj - xi) * (y - yi)) / (yj - yi) + xi,
\* the comparison multiplied through by yj - yi (non-zero by the first test).
edgeCrossed(x, y, pi, pj) ==
    /\ (pi[2] > y) # (pj[2] > y)
    /\ LET dy  == pj[2] - pi[2]
           num == (pj[1] - pi[1]) * (y - pi[2])
       IN  IF dy > 0 THEN (x - pi[1]) * dy < num ELSE (x - pi[1]) * dy > num

\* Variant: inside as soon as one edge is crossed.
rayCast_Any(x, y, polygon) ==
    LET n == Len(polygon)
        prev(i) == IF i = 1 THEN n ELSE i - 1
    IN  \E i \in 1..n : edgeCrossed(x, y, polygon[i], polygon[prev(i)])

\* for (i = 0, j = n - 1; i < n; j = i++) if (crossed) inside = !inside
rayCast(x, y, polygon) ==
    LET n == Len(polygon)
        prev(i) == IF i = 1 THEN n ELSE i - 1
    IN  Cardinality({i \in 1..n : edgeCrossed(x, y, polygon[i], polygon[prev(i)])}) % 2 = 1

\* Variant: the pre-filter also rejects the points on the sides of the box.
slotInside_Tight(positions, polygon, si) ==
    LET x == positions[2 * si + 1]
        y == positions[2 * si + 2]
    IN  IF \/ x <= polygonMin(polygon, 1) \/ x >= polygonMax(polygon, 1)
           \/ y <= polygonMin(polygon, 2) \/ y >= polygonMax(polygon, 2)
        THEN FALSE
        ELSE rayCast(x, y, polygon)

\* The body of the slot loop: AABB pre-filter, then the ray cast.
slotInside(positions, polygon, si) ==
    LET x == positions[2 * si + 1]
        y == positions[2 * si + 2]
    IN  IF \/ x < polygonMin(polygon, 1) \/ x > polygonMax(polygon, 1)
           \/ y < polygonMin(polygon, 2) \/ y > polygonMax(polygon, 2)
        THEN FALSE
        ELSE rayCast(x, y, polygon)

\* Variant: the slot loop putting each match in front of the list.
RECURSIVE slotLoop_Prepend(_, _, _, _, _, _)
slotLoop_Prepend(positions, npoint, polygon, order, si, acc) ==
    IF si >= npoint THEN acc
    ELSE slotLoop_Prepend(positions, npoint, polygon, order, si + 1,
                          IF slotInside(positions, polygon, si)
                          THEN <<order[si + 1]>> \o acc ELSE acc)

\* for (si = 0; si < npoint; si++) if (inside) result.push(order[si])
RECURSIVE slotLoop(_, _, _, _, _, _)
slotLoop(positions, npoint, polygon, order, si, acc) ==
    IF si >= npoint THEN acc
    ELSE slotLoop(positions, npoint, polygon, order, si + 1,
                  IF slotInside(positions, polygon, si)
                  THEN Append(acc, order[si + 1]) ELSE acc)

\* Variant: fewer than 3 vertices select every slot.
pointsInPolygon_ShortAll(positions, npoint, polygon, order) ==
    IF Len(polygon) < 3 THEN SubSeq(order, 1, npoint)
    ELSE slotLoop(positions, npoint, polygon, order, 0, <<>>)

\* pointsInPolygon(positions, npoint, polygon, order)
pointsInPolygon(positions, npoint, polygon, order) ==
    IF Len(polygon) < 3 THEN <<>>
    ELSE slotLoop(positions, npoint, polygon, order, 0, <<>>)

\* ---------------------------------------------------------------- Emitter
\* The events of ScatterEvents that take listeners here.
EventNames == {"projection", "select"}
\* The functions handed to on(), told apart by identity.
Listeners == 1 .. MaxListeners

\* The Set of one event as the sequence of its slots in insertion order; a
\* slot emptied by delete() is 0 until the iteration in progress is over (a
\* Set iterator walks the entries by position, visits the entries added
\* behind it and passes over the emptied ones).
Members(slots) == {slots[k] : k \in DOMAIN slots} \ {0}

\* part_006:13  Set.add(fn): a member is not added again and keeps its place
add(slots, fn) == IF fn \in Members(slots) THEN slots ELSE Append(slots, fn)

\* Variant: delete() closes the gap at once, under a running iteration too.
delete_Shift(slots, fn) == SelectSeq(slots, LAMBDA x : x # fn)

\* part_006:15  Set.delete(fn)
delete(slots, fn) == [k \in DOMAIN slots |-> IF slots[k] = fn THEN 0 ELSE slots[k]]

\* The Set once no iteration runs: the emptied slots are gone.
compact(slots) == SelectSeq(slots, LAMBDA x : x # 0)

\* part_006:4  #listeners = new Map(); an event without a Set and an event
\* with an empty Set behave alike in on, emit and the unsubscribe function.
\* registered and unsubscribed are the history of the on() and unsubscribe
\* calls made per event, out the listener calls and the on / unsubscribe
\* calls the listeners made during the last step.
NewEmitter ==
    [listeners |-> [e \in EventNames |-> <<>>],
     registered |-> [e \in EventNames |-> <<>>],
     unsubscribed |-> [e \in EventNames |-> {}],
     out |-> <<>>]

\* part_006:6-13 / Scatterplot.ts:600-605  on(event, fn)
on(em, event, fn) ==
    [em EXCEPT !.listeners[event] = add(@, fn),
               !.registered[event] = Append(@, fn)]

\* part_006:14-16  the function on() returned
unsubscribe(em, event, fn) ==
    [em EXCEPT !.listeners[event] = delete(@, fn),
               !.unsubscribed[event] = @ \cup {fn}]

Logged(kind, fn, event, arg) ==
    [k |-> kind, fn |-> fn, event |-> event, arg |-> arg]

\* What a listener does beside taking the payload: nothing, or calls of on()
\* and of unsubscribe functions for the event being emitted.
NoHook == [by |-> 0, body |-> <<>>]

RECURSIVE runBody(_, _, _)
runBody(em, event, body) ==
    IF body = <<>> THEN em
    ELSE LET step == IF body[1].k = "on" THEN on(em, event, body[1].fn)
                     ELSE unsubscribe(em, event, body[1].fn)
         IN  runBody([step EXCEPT !.out = Append(@, Logged(body[1].k, body[1].fn, event, 0))],
                     event, Tail(body))

\* part_006:20-22  for (const fn of this.#listeners.get(event) ?? []) fn(data)
\* from slot i on; the listener hook.by runs hook.body the first time it is called.
RECURSIVE emitFrom(_, _, _, _, _)
emitFrom(em, event, arg, hook, i) ==
    LET slots == em.listeners[event]
    IN  IF i > Len(slots) THEN em
        ELSE IF slots[i] = 0 THEN emitFrom(em, event, arg, hook, i + 1)
        ELSE LET fn == slots[i]
                 first == \A k \in DOMAIN em.out :
                              ~(em.out[k].k = "call" /\ em.out[k].fn = fn)
                 called == [em EXCEPT !.out = Append(@, Logged("call", fn, event, arg))]
                 after == IF hook.by = fn /\ first
                          THEN runBody(called, event, hook.body)
                          ELSE called
             IN  emitFrom(after, event, arg, hook, i + 1)

\* part_006:19-23  emit(event, data)
emit(em, event, arg, hook) ==
    LET done == emitFrom(em, event, arg, hook, 1)
    IN  [done EXCEPT !.listeners[event] = compact(@)]

\* ------------------------------------------------------------------ Lasso
\* The Lasso object as a record: #active, #polygon, #pointerId (0 = null),
\* the snapshot of setRenderState (#positions, #npoint, #order), whether the
\* pointermove/pointerup listeners (dragListeners) and the pointerdown /
\* dblclick / keydown listeners (baseListeners) are attached, whether the
\* path is displayed; of the browser, the pointers that are down (pointers)
\* and the pointer the element has captured (capture, 0 = none); of the last
\* step, the callbacks invoked (out) and whether releasePointerCapture threw
\* inside the try (threw).
NewLasso ==
    [active |-> FALSE, polygon |-> <<>>, pointerId |-> 0,
     positions |-> <<>>, npoint |-> 0, order |-> <<>>,
     dragListeners |-> FALSE, baseListeners |-> TRUE, pathShown |-> FALSE,
     pointers |-> {}, capture |-> 0, out |-> <<>>, threw |-> FALSE]

\* #detachDragListeners()
detachDragListeners(l) == [l EXCEPT !.dragListeners = FALSE]

\* Variant: #cancelDrag that keeps the listeners.
cancelDrag_KeepListeners(l) == [l EXCEPT !.active = FALSE, !.pointerId = 0]

\* #cancelDrag(): releasePointerCapture throws for a pointer that is no
\* longer down and releases the capture the element has of it otherwise.
cancelDrag(l) ==
    LET l1 == IF l.pointerId # 0
              THEN [l EXCEPT !.threw = (l.pointerId \notin l.pointers),
                             !.capture = IF @ = l.pointerId THEN 0 ELSE @,
                             !.pointerId = 0]
              ELSE l
    IN  detachDragListeners([l1 EXCEPT !.active = FALSE])

\* clear()
clear(l) ==
    LET l1 == [l EXCEPT !.polygon = <<>>, !.pathShown = FALSE]
        l2 == IF l1.active THEN cancelDrag(l1) ELSE l1
    IN  [l2 EXCEPT !.out = Append(@, [fn |-> "onClear", indices |-> <<>>])]

\* destroy()
destroy(l) == cancelDrag([l EXCEPT !.baseListeners = FALSE])

\* setRenderState(positions, npoint, order)
setRenderState(l, rs) ==
    [l EXCEPT !.positions = rs.positions, !.npoint = rs.npoint, !.order = rs.order]

\* Variant: #onPointerDown without the shift test.
onPointerDown_NoShift(l, shift, onHandle, pid, pos) ==
    IF onHandle THEN l
    ELSE [l EXCEPT !.active = TRUE, !.polygon = <<pos>>, !.pointerId = pid,
                   !.pathShown = TRUE, !.capture = pid, !.dragListeners = TRUE]

\* #onPointerDown(event)
onPointerDown(l, shift, onHandle, pid, pos) ==
    IF ~shift THEN l
    ELSE IF onHandle THEN l
    ELSE [l EXCEPT !.active = TRUE, !.polygon = <<pos>>, !.pointerId = pid,
                   !.pathShown = TRUE, !.capture = pid, !.dragListeners = TRUE]

\* #onPointerMove(event)
onPointerMove(l, pos) ==
    IF ~l.active THEN l ELSE [l EXCEPT !.polygon = Append(@, pos)]

\* Variant: #onPointerUp that reports an empty match too.
onPointerUp_ReportEmpty(l) ==
    IF ~l.active THEN l
    ELSE LET l1 == detachDragListeners([l EXCEPT !.active = FALSE])
         IN  IF Len(l1.polygon) < 3 THEN clear(l1)
             ELSE [l1 EXCEPT !.out = Append(@,
                     [fn |-> "onSelect",
                      indices |-> pointsInPolygon(l1.positions, l1.npoint,
                                                  l1.polygon, l1.order)])]

\* #onPointerUp(event)
onPointerUp(l) ==
    IF ~l.active THEN l
    ELSE LET l1 == detachDragListeners([l EXCEPT !.active = FALSE])
             indices == pointsInPolygon(l1.positions, l1.npoint, l1.polygon, l1.order)
         IN  IF Len(l1.polygon) < 3 THEN clear(l1)
             ELSE IF Len(indices) = 0 THEN clear(l1)
             ELSE [l1 EXCEPT !.out = Append(@, [fn |-> "onSelect", indices |-> indices])]

\* #onDblClick(event)
onDblClick(l) == IF Len(l.polygon) > 0 THEN clear(l) ELSE l

\* Variant: #onKeyDown that only clears an idle lasso.
onKeyDown_IdleOnly(l, key) ==
    IF key = "Escape" /\ ~l.active /\ Len(l.polygon) > 0 THEN clear(l) ELSE l

\* #onKeyDown(event)
onKeyDown(l, key) ==
    IF key = "Escape"
    THEN LET l1 == IF l.active
                   THEN detachDragListeners([l EXCEPT !.active = FALSE])
                   ELSE l
         IN  IF Len(l1.polygon) > 0 THEN clear(l1) ELSE l1
    ELSE l

\* ------------------------------------------------------------ Scatterplot
NoData == [ndim |-> 0, npoint |-> 0, ncat |-> 0]
NoFrame == [data |-> NoData]
\* #legend: undefined, or a Legend with its `selected` set
NoLegend == [exists |-> FALSE, selected |-> {}]
LegendWith(sel) == [exists |-> TRUE, selected |-> sel]
\* #visibleCategories: null, or new Set(classes)
Null == [null |-> TRUE, members |-> {}]
SetOf(classes) == [null |-> FALSE, members |-> classes]
Categories == {1, 2}
LoadDims == {2}
OptionNames == {"cameraZ", "pointSize"}
OptionValues == {"default", "other"}
CanvasSizes == {"small", "large"}
DataSets ==
    {[ndim |-> n, npoint |-> p, ncat |-> c] :
        n \in LoadDims, p \in 1..MaxPoints, c \in {0, Cardinality(Categories)}}

\* The scheduling fields of the Scatterplot and of the browser, as one record.
Sched ==
    [playing |-> playing, pendingFrame |-> pendingFrame,
     rafQueue |-> rafQueue, nextHandle |-> nextHandle]

\* Variant: #markDirty that does not look at #pendingFrame.
markDirty_NoCoalesce(s) ==
    IF ~s.playing THEN s
    ELSE [s EXCEPT !.pendingFrame = s.nextHandle,
                   !.rafQueue = @ \cup {s.nextHandle},
                   !.nextHandle = @ + 1]

\* #markDirty(): if (!playing || pendingFrame !== 0) return;
\*               pendingFrame = requestAnimationFrame(callback)
markDirty(s) ==
    IF ~s.playing \/ s.pendingFrame # 0 THEN s
    ELSE [s EXCEPT !.pendingFrame = s.nextHandle,
                   !.rafQueue = @ \cup {s.nextHandle},
                   !.nextHandle = @ + 1]

\* Variant: play() that does not flush.
play_NoFlush(s) == [s EXCEPT !.playing = TRUE]

\* play(): if (playing) return; playing = true; #markDirty()
play(s) == IF s.playing THEN s ELSE markDirty([s EXCEPT !.playing = TRUE])

\* Variant: pause() that leaves the requested callback in place.
pause_NoCancel(s) == [s EXCEPT !.playing = FALSE, !.pendingFrame = 0]

\* pause(): playing = false; if (pendingFrame !== 0) { cancelAnimationFrame; pendingFrame = 0 }
pause(s) ==
    LET s1 == [s EXCEPT !.playing = FALSE]
    IN  IF s1.pendingFrame # 0
        THEN [s1 EXCEPT !.rafQueue = @ \ {s1.pendingFrame}, !.pendingFrame = 0]
        ELSE s1

\* Variant: a callback that does not reset #pendingFrame.
frameCallback_KeepPending(s, h) == [s EXCEPT !.rafQueue = @ \ {h}]

\* The callback handed to requestAnimationFrame, run by the browser for
\* handle h: pendingFrame = 0 (then, if playing, #render()).
frameCallback(s, h) == [s EXCEPT !.rafQueue = @ \ {h}, !.pendingFrame = 0]

\* Variant: buffers that hold the axis vertices and one point.
allocate_OnePoint(d) == 1 + d.ndim * 4

\* loadData: nAxisVerts = ndim * 4; totalVerts = npoint + nAxisVerts; the
\* three buffers are allocated for totalVerts vertices.
allocate(d) == d.npoint + d.ndim * 4

\* #render: the vertices a frame writes, the final value of vi: the point loop
\* writes slots 0 .. npoint - 1, vi starts at npoint, and the towards and the
\* away loop each write 2 vertices per axis.
verticesWritten(view) ==
    LET afterPoints  == view.data.npoint
        afterTowards == afterPoints + 2 * view.data.ndim
    IN  afterTowards + 2 * view.data.ndim

\* What #render reads.
View ==
    [data |-> data, matrix |-> matrix, opts |-> opts, canvas |-> canvas,
     visible |-> visible]

\* Variant: #render without the data guard.
render_NoGuard(view, h, r) ==
    [drawn |-> view, rendered |-> [buffers |-> h, scales |-> h, overlay |-> h]]

\* #render(): if (!data) return; otherwise fill the buffers, recentre the
\* scales, issue the draw call and redraw the overlay.  h is the handle of the
\* frame callback that runs it, r the previous writers.
render(view, h, r) ==
    IF view.data = NoData
    THEN [drawn |-> NoFrame, rendered |-> r]
    ELSE [drawn |-> view,
          rendered |-> [buffers |-> h, scales |-> h, overlay |-> h]]

\* emit("projection", { matrix: projection.getMatrix() })
projectionEvent(m) == [type |-> "projection", payload |-> getMatrix(m)]

\* setProjection(matrix): setMatrix, then emit
scatterSetProjection(m, init) ==
    LET m2 == setMatrix(init)
    IN  [matrix |-> m2, events |-> <<projectionEvent(m2)>>]

\* Variant: setAxis that emits before it mutates.
scatterSetAxis_EmitFirst(m, i, vec) ==
    [matrix |-> setAxis(m, i, vec), events |-> <<projectionEvent(m)>>]

\* setAxis(index, vector): projection.setAxis, then emit
scatterSetAxis(m, i, vec) ==
    LET m2 == setAxis(m, i, vec)
    IN  [matrix |-> m2, events |-> <<projectionEvent(m2)>>]

\* Overlay drag move: setAxis(i, axis), then onProjectionChanged()
overlayDrag(m, i, dx, dy) ==
    LET m2 == setAxis(m, i, dragVector(m, i, dx, dy))
    IN  [matrix |-> m2, events |-> <<projectionEvent(m2)>>]

\* Overlay alt-click: flipAxis(i), then onProjectionChanged()
overlayFlip(m, i) ==
    LET m2 == flipAxis(m, i)
    IN  [matrix |-> m2, events |-> <<projectionEvent(m2)>>]

\* Legend "select" listener: null when every category is selected
onLegendSelect(classes, d) == IF Cardinality(classes) = d.ncat THEN Null ELSE SetOf(classes)

\* Legend "mouseout" listener: null when nothing is selected
onLegendMouseout(classes) == IF classes = {} THEN Null ELSE SetOf(classes)

\* Legend click: toggle i; the set is emitted before it is cleared when full
legendToggle(selected, i) == IF i \in selected THEN selected \ {i} ELSE selected \cup {i}
legendAfterClick(selected, d) == IF Cardinality(selected) = d.ncat THEN {} ELSE selected

\* history: k calls of #markDirty made with #playing = p
Marked(p, k) == IF p THEN marks + k ELSE marks
CanMark(k) == nextHandle <= MaxFrames /\ Marked(TRUE, k) <= MaxMarks

SetSched(s) ==
    /\ playing' = s.playing
    /\ pendingFrame' = s.pendingFrame
    /\ rafQueue' = s.rafQueue
    /\ nextHandle' = s.nextHandle

Op(name) == [op |-> name, i |-> 0, v |-> <<>>]

NoCall == [fn |-> "none"]
NoHeld == [kind |-> "none", shared |-> FALSE, written |-> FALSE]

\* The state create() leaves, but for the Projection.
ScatterInit ==
    /\ data = NoData
    /\ opts = [o \in OptionNames |-> "default"]
    /\ canvas = "small"
    /\ visible = Null
    /\ legend = NoLegend
    /\ glCapacity = 0
    /\ playing = FALSE
    /\ pendingFrame = 0
    /\ rendered = [buffers |-> 0, scales |-> 0, overlay |-> 0]
    /\ rafQueue = {}
    /\ nextHandle = 1
    /\ events = <<>>
    /\ drawn = NoFrame
    /\ renders = 0
    /\ dirty = FALSE
    /\ marks = 0
    /\ voided = {}
    /\ paused = FALSE
    /\ call = NoCall
    /\ result = NoCall
    /\ held = NoHeld
    /\ lasso = NewLasso
    /\ emitter = NewEmitter

\* constructor: #projection = new Projection(2)
Init ==
    /\ ndim = 2
    /\ matrix = newProjection(2, NoInit)
    /\ lastOp = Op("create")
    /\ inputOk = TRUE
    /\ ScatterInit

\* A step that only mutates and marks dirty once: no frame is drawn by it.
Mutation(name, ev) ==
    /\ nextHandle <= MaxFrames
    /\ playing => CanMark(1)
    /\ SetSched(markDirty(Sched))
    /\ marks' = Marked(playing, 1)
    /\ lastOp' = Op(name)
    /\ events' = ev
    /\ drawn' = NoFrame
    /\ renders' = 0
    /\ dirty' = TRUE
    /\ UNCHANGED <<inputOk, glCapacity, rendered, voided, paused, call, result, held, lasso, emitter>>

\* loadData(data) for the data set d, the canvas having the size `size`
LoadDataOf(d, size) ==
    LET s1 == markDirty(Sched)                      \* this.resize()
        s2 == markDirty([s1 EXCEPT !.playing = TRUE])
    IN  /\ nextHandle <= MaxFrames
        /\ IF playing THEN CanMark(2) ELSE CanMark(1)
        /\ data' = d
        /\ glCapacity' = allocate(d)
        /\ ndim' = d.ndim
        /\ matrix' = newProjection(d.ndim, NoInit)
        /\ legend' = IF d.ncat > 0 THEN LegendWith({}) ELSE NoLegend
        /\ visible' = Null
        /\ canvas' = size
        /\ events' = <<[type |-> "resize", payload |-> size]>>
        /\ SetSched(s2)
        /\ marks' = Marked(playing, 1) + 1
        /\ rendered' = [rendered EXCEPT !.buffers = 0, !.overlay = 0]
        /\ lastOp' = Op("loadData")
        /\ drawn' = NoFrame
        /\ renders' = 0
        /\ dirty' = TRUE
        /\ UNCHANGED <<opts, inputOk, voided, paused, call, result, held, lasso, emitter>>

\* loadData(data)
LoadData == \E d \in DataSets, size \in CanvasSizes : LoadDataOf(d, size)

\* setProjection(matrix)
SetProjection ==
    \E init \in MatrixInputs(ndim) :
        LET r == scatterSetProjection(matrix, init)
        IN  /\ matrix' = r.matrix
            /\ Mutation("setProjection", r.events)
            /\ UNCHANGED <<ndim, data, opts, canvas, visible, legend>>

\* setAxis(index, vector)
SetAxis ==
    \E i \in 1..ndim, v \in Vectors(ndim) :
        LET r == scatterSetAxis(matrix, i, v)
        IN  /\ HeightOk(matrix)
            /\ matrix' = r.matrix
            /\ Mutation("setAxis", r.events)
            /\ UNCHANGED <<ndim, data, opts, canvas, visible, legend>>

\* Overlay handle drag move (handles exist once data is loaded)
Drag ==
    \E i \in 1..ndim, dx \in Coords, dy \in Coords :
        LET r == overlayDrag(matrix, i, dx, dy)
        IN  /\ data # NoData
            /\ HeightOk(matrix)
            /\ matrix' = r.matrix
            /\ Mutation("drag", r.events)
            /\ UNCHANGED <<ndim, data, opts, canvas, visible, legend>>

\* Overlay handle alt-click
Flip ==
    \E i \in 1..ndim :
        LET r == overlayFlip(matrix, i)
        IN  /\ data # NoData
            /\ matrix' = r.matrix
            /\ Mutation("flip", r.events)
            /\ UNCHANGED <<ndim, data, opts, canvas, visible, legend>>

\* resize(), called directly or by the ResizeObserver
Resize ==
    \E size \in CanvasSizes :
        /\ canvas' = size
        /\ Mutation("resize", <<[type |-> "resize", payload |-> size]>>)
        /\ UNCHANGED <<ndim, matrix, data, opts, visible, legend>>

\* set cameraZ / focalLength / pointSize / minDepthScale / axisLength: the
\* five setters have the same body, this.#opts.<name> = value; #markDirty()
SetOption ==
    \E o \in OptionNames, value \in OptionValues :
        /\ opts' = [opts EXCEPT ![o] = value]
        /\ Mutation("setOption", <<>>)
        /\ UNCHANGED <<ndim, matrix, data, canvas, visible, legend>>

\* Legend item mouseover: emits "select" with selected + i
LegendMouseover ==
    \E i \in Categories :
        /\ legend.exists
        /\ visible' = onLegendSelect(legend.selected \cup {i}, data)
        /\ Mutation("legendMouseover", <<[type |-> "select", payload |-> legend.selected \cup {i}]>>)
        /\ UNCHANGED <<ndim, matrix, data, opts, canvas, legend>>

\* Legend item mouseout: emits "mouseout" with selected
LegendMouseout ==
    /\ legend.exists
    /\ visible' = onLegendMouseout(legend.selected)
    /\ Mutation("legendMouseout", <<>>)
    /\ UNCHANGED <<ndim, matrix, data, opts, canvas, legend>>

\* Legend item click: toggles i, emits "select", clears a full selection
LegendClick ==
    \E i \in Categories :
        LET sel == legendToggle(legend.selected, i)
        IN  /\ legend.exists
            /\ visible' = onLegendSelect(sel, data)
            /\ legend' = LegendWith(legendAfterClick(sel, data))
            /\ Mutation("legendClick", <<[type |-> "select", payload |-> sel]>>)
            /\ UNCHANGED <<ndim, matrix, data, opts, canvas>>

\* play()
Play ==
    /\ CanMark(1)
    /\ SetSched(play(Sched))
    /\ marks' = IF playing THEN marks ELSE marks + 1
    /\ paused' = FALSE
    /\ lastOp' = Op("play")
    /\ events' = <<>>
    /\ drawn' = NoFrame
    /\ renders' = 0
    /\ UNCHANGED <<ndim, matrix, inputOk, data, opts, canvas, visible, legend,
                   glCapacity, rendered, dirty, voided, call, result, held, lasso, emitter>>

\* pause()
Pause ==
    /\ SetSched(pause(Sched))
    /\ voided' = voided \cup rafQueue
    /\ paused' = TRUE
    /\ lastOp' = Op("pause")
    /\ events' = <<>>
    /\ drawn' = NoFrame
    /\ renders' = 0
    /\ marks' = 0
    /\ UNCHANGED <<ndim, matrix, inputOk, data, opts, canvas, visible, legend,
                   glCapacity, rendered, dirty, call, result, held, lasso, emitter>>

\* The browser runs the animation-frame callback with handle h.
FrameCallback ==
    \E h \in rafQueue :
        LET s1 == frameCallback(Sched, h)
            r  == IF s1.playing THEN render(View, h, rendered)
                  ELSE [drawn |-> NoFrame, rendered |-> rendered]
        IN  /\ SetSched(s1)
            /\ drawn' = r.drawn
            /\ rendered' = r.rendered
            /\ renders' = IF s1.playing THEN 1 ELSE 0
            /\ dirty' = IF r.drawn # NoFrame THEN FALSE ELSE dirty
            /\ marks' = 0
            /\ lastOp' = [op |-> "frame", i |-> h,
                          v |-> <<marks, IF r.drawn # NoFrame
                                         THEN verticesWritten(r.drawn) ELSE 0>>]
            /\ events' = <<>>
            /\ UNCHANGED <<ndim, matrix, inputOk, data, opts, canvas, visible,
                           legend, glCapacity, voided, paused, call, result, held, lasso, emitter>>

\* A "projection" listener writes into the payload it was handed: the write
\* reaches #matrix only if the payload shares its arrays.
ListenerEdit ==
    /\ events # <<>>
    /\ events[1].type = "projection"
    /\ matrix' = IF events[1].payload.aliased
                 THEN [matrix EXCEPT ![1] = Raw([c \in 1..ndim |-> 0])]
                 ELSE matrix
    /\ lastOp' = Op("listenerEdit")
    /\ events' = <<>>
    /\ drawn' = NoFrame
    /\ renders' = 0
    /\ UNCHANGED <<ndim, inputOk, data, opts, canvas, visible, legend, glCapacity,
                   playing, pendingFrame, rendered, rafQueue, nextHandle, dirty,
                   marks, voided, paused, call, result, held, lasso, emitter>>

Next ==
    \/ LoadData \/ SetProjection \/ SetAxis \/ Drag \/ Flip \/ Resize
    \/ SetOption \/ LegendMouseover \/ LegendMouseout \/ LegendClick
    \/ Play \/ Pause \/ FrameCallback \/ ListenerEdit

Spec == Init /\ [][Next]_vars

\* The browser runs every requested animation-frame callback that is not cancelled.
FairSpec == Spec /\ WF_vars(FrameCallback)

\* ------------------------------------------- the Projection object alone
PInit ==
    \E n \in Dims : \E init \in {NoInit} \cup MatrixInputs(n) :
        /\ (init = NoInit => n <= 2)
        /\ ndim = n
        /\ matrix = newProjection(n, init)
        /\ lastOp = [op |-> "new", i |-> 0, v |-> <<>>]
        /\ inputOk = (init = NoInit \/ Independent(init))
        /\ ScatterInit

PSetMatrix ==
    \E init \in MatrixInputs(ndim) :
        /\ matrix' = setMatrix(init)
        /\ lastOp' = [op |-> "setMatrix", i |-> 0, v |-> <<>>]
        /\ inputOk' = Independent(init)
        /\ UNCHANGED ndim

PFlipAxis ==
    \E i \in 1..ndim :
        /\ matrix' = flipAxis(matrix, i)
        /\ lastOp' = [op |-> "flipAxis", i |-> i, v |-> <<>>]
        /\ UNCHANGED <<ndim, inputOk>>

PSetAxis ==
    \E i \in 1..ndim, v \in Vectors(ndim) :
        /\ HeightOk(matrix)
        /\ matrix' = setAxis(matrix, i, v)
        /\ lastOp' = [op |-> "setAxis", i |-> i, v |-> v]
        /\ inputOk' = Independent([matrix EXCEPT ![i] = Raw(v)])
        /\ UNCHANGED ndim

PDrag ==
    \E i \in 1..ndim, dx \in Coords, dy \in Coords :
        LET v == dragVector(matrix, i, dx, dy)
        IN  /\ HeightOk(matrix)
            /\ matrix' = setAxis(matrix, i, v)
            /\ lastOp' = [op |-> "drag", i |-> i, v |-> v]
            /\ inputOk' = Independent([matrix EXCEPT ![i] = Raw(v)])
            /\ UNCHANGED ndim

\* setMatrix(getMatrix()): the host hands back the matrix it was handed
PRoundTrip ==
    /\ matrix' = setMatrix(getMatrix(matrix).rows)
    /\ lastOp' = [op |-> "roundTrip", i |-> 0, v |-> <<>>]
    /\ inputOk' = Independent(matrix)
    /\ UNCHANGED ndim

PNext ==
    (PSetMatrix \/ PFlipAxis \/ PSetAxis \/ PDrag \/ PRoundTrip)
        /\ UNCHANGED svars /\ UNCHANGED fvars /\ UNCHANGED <<held, lasso, emitter>>

SpecP == PInit /\ [][PNext]_vars

C9_DepthSignStable ==
    [][(lastOp'.op \in {"setAxis", "drag"} /\ ndim >= 3)
          => ~depthFlipped(depthColumn(matrix), matrix')]_vars

\* A setAxis in three dimensions whose depth-sign correction acted: row i is
\* not the normalized vector that was set.
C9_Witness ==
    /\ ndim = 3 /\ lastOp.op = "setAxis"
    /\ dot(Raw(lastOp.v), Raw(lastOp.v)) > 0
    /\ matrix[lastOp.i] # normalizeVec(Raw(lastOp.v))
    /\ Orthonormal(matrix)

\* C10 (as stated): after setAxis(i, v) with v non-zero, row i is v / |v|,
\* for ndim >= 3 as well as for ndim < 3.
C10_Original ==
    (lastOp.op = "setAxis" /\ dot(Raw(lastOp.v), Raw(lastOp.v)) > 0)
        => matrix[lastOp.i] = normalizeVec(Raw(lastOp.v))

\* ----------------------------------------------------- Scatterplot claims
HasData == data # NoData

\* C2: while rendering is enabled, the N >= 1 #markDirty calls made since the
\* last frame callback have exactly one callback outstanding, and the callback
\* that serves them builds exactly one frame (one #render call, one draw when
\* data is loaded) and leaves none outstanding.
C2_Coalesced ==
    /\ (playing /\ marks >= 1) => Cardinality(rafQueue) = 1
    /\ lastOp.op = "frame" =>
          /\ renders = 1
          /\ rafQueue = {}
          /\ (HasData => drawn # NoFrame)

\* A frame callback served two or more dirty-marking calls with one frame.
C2_Witness ==
    /\ lastOp.op = "frame" /\ lastOp.v[1] >= 2
    /\ renders = 1 /\ drawn # NoFrame /\ rafQueue = {}

\* C3: at most one frame callback is outstanding, #pendingFrame is nonzero
\* exactly when one is outstanding (and is its handle), and a step requests a
\* callback only if none was pending and rendering is enabled.
C3_SingleCallback ==
    /\ [](/\ Cardinality(rafQueue) <= 1
          /\ (pendingFrame # 0 <=> rafQueue # {})
          /\ (pendingFrame # 0 => rafQueue = {pendingFrame}))
    /\ [][(rafQueue' \ rafQueue # {}) => (pendingFrame = 0 /\ playing')]_vars

\* A second dirty-marking call found the callback pending and requested none.
C3_Witness ==
    /\ pendingFrame # 0 /\ rafQueue = {pendingFrame} /\ playing
    /\ marks >= 2 /\ nextHandle = pendingFrame + 1

\* C4: with data loaded and rendering enabled, a mutation always has a frame
\* callback outstanding, the callback's frame is eventually built, and a
\* built frame is the state left by every mutation made before it.
C4_EventuallyDrawn ==
    /\ []((playing /\ HasData /\ dirty) => (pendingFrame # 0 /\ pendingFrame \in rafQueue))
    /\ [](drawn # NoFrame => (drawn = View /\ ~dirty))
    /\ ((playing /\ HasData /\ dirty) ~> (~dirty \/ ~playing))

\* One frame drew an option change and a legend selection made before it.
C4_Witness ==
    /\ lastOp.op = "frame" /\ drawn # NoFrame /\ drawn = View
    /\ \E o \in OptionNames : drawn.opts[o] # "default"
    /\ ~drawn.visible.null

\* C5 (as stated): after pause(), no frame is drawn until play() is called.
C5_Original == paused => drawn = NoFrame

\* C6: pause() leaves no callback requested, and a callback that was pending
\* at a pause() never runs; play() after pause() requests exactly one callback
\* with a fresh handle, and the frame built from it is the current state;
\* play() while playing requests nothing.
C6_PauseCancels ==
    /\ [](lastOp.op = "pause" => (~playing /\ pendingFrame = 0 /\ rafQueue = {}))
    /\ [](lastOp.op = "frame" => lastOp.i \notin voided)
    /\ [](drawn # NoFrame => drawn = View)
    /\ [][lastOp'.op = "play" =>
            IF playing
            THEN UNCHANGED <<playing, pendingFrame, rafQueue, nextHandle>>
            ELSE /\ playing'
                 /\ pendingFrame' # 0
                 /\ rafQueue' = {pendingFrame'}
                 /\ pendingFrame' \notin (voided \cup rafQueue)]_vars

\* The frame requested by a play() that followed a pause() which cancelled a
\* callback has been drawn.
C6_Witness ==
    /\ lastOp.op = "frame" /\ voided # {} /\ ~paused
    /\ lastOp.i \notin voided
    /\ drawn # NoFrame /\ drawn = View

\* C7: a frame callback that runs while no data is loaded draws nothing and
\* leaves the render buffers, the scales and the overlay as they were.
C7_NoDataNoOp ==
    [][(lastOp'.op = "frame" /\ ~HasData) =>
          (drawn' = NoFrame /\ UNCHANGED <<glCapacity, rendered, data>>)]_vars

\* A frame callback ran #render with no data loaded.
C7_Witness ==
    /\ lastOp.op = "frame" /\ ~HasData /\ renders = 1
    /\ drawn = NoFrame /\ rendered.buffers = 0

\* C8: setProjection, setAxis, a drag move and a flip each emit exactly one
\* event, a "projection" event whose payload equals the matrix after the
\* mutation and shares no array with it; a listener's write into the payload
\* leaves the matrix as it was.
C8_ProjectionEvent ==
    /\ [](lastOp.op \in {"setProjection", "setAxis", "drag", "flip"} =>
            /\ Len(events) = 1
            /\ events[1].type = "projection"
            /\ events[1].payload.rows = matrix
            /\ ~events[1].payload.aliased)
    /\ [][lastOp'.op = "listenerEdit" => matrix' = matrix]_vars

\* A setAxis that changed the matrix emitted the new matrix.
C8_Witness ==
    /\ lastOp.op = "setAxis" /\ Len(events) = 1
    /\ events[1].payload.rows = matrix
    /\ matrix # identity(ndim)
    /\ SqNorm(matrix[1]) > 1

C37_Original ==
    /\ visible = Null \/ visible.members # {}
    /\ drawn # NoFrame => (drawn.visible = Null \/ drawn.visible.members # {})

\* ------------------------------------- the Projection and its caller's arrays
\* call and result hold what the last step returned.
AFrozen == UNCHANGED svars /\ UNCHANGED <<lasso, emitter>> /\ call' = NoCall /\ result' = NoCall

Held(kind, shared, written) == [kind |-> kind, shared |-> shared, written |-> written]

\* m = getMatrix()
AGetMatrix ==
    /\ held' = Held("gotMatrix", Reaches(getMatrixRef, "own"), FALSE)
    /\ lastOp' = [op |-> "getMatrix", i |-> 0, v |-> <<>>]
    /\ UNCHANGED <<ndim, matrix, inputOk>>
    /\ AFrozen

\* a = getAxis(i)
AGetAxis ==
    \E i \in 1..ndim :
        /\ held' = Held("gotAxis", getAxisRef = "own", FALSE)
        /\ lastOp' = [op |-> "getAxis", i |-> i, v |-> <<>>]
        /\ UNCHANGED <<ndim, matrix, inputOk>>
        /\ AFrozen

\* setMatrix(m) with an array m of the caller
ASetMatrix ==
    \E init \in MatrixInputs(ndim) :
        /\ matrix' = setMatrix(init)
        /\ held' = Held("gaveMatrix", Reaches(setMatrixRef(CallerRef), "caller"),
                        Reaches(setMatrixRef(CallerRef), "caller"))
        /\ lastOp' = [op |-> "setMatrix", i |-> 0, v |-> <<>>]
        /\ inputOk' = Independent(init)
        /\ UNCHANGED ndim
        /\ AFrozen

\* setAxis(i, vec) with an array vec of the caller
ASetAxis ==
    \E i \in 1..ndim, v \in Vectors(ndim) :
        /\ HeightOk(matrix)
        /\ matrix' = setAxis(matrix, i, v)
        /\ held' = Held("gaveAxis", setAxisRef("caller") = "caller",
                        setAxisRef("caller") = "caller")
        /\ lastOp' = [op |-> "setAxis", i |-> i, v |-> v]
        /\ inputOk' = Independent([matrix EXCEPT ![i] = Raw(v)])
        /\ UNCHANGED ndim
        /\ AFrozen

\* The caller writes into the array it holds: the write reaches #matrix only
\* if the array is shared with it.
AHostWrite ==
    /\ held.kind # "none"
    /\ matrix' = IF held.shared
                 THEN [matrix EXCEPT ![1] = Raw([c \in 1..ndim |-> 0])]
                 ELSE matrix
    /\ lastOp' = [op |-> "hostWrite", i |-> 0, v |-> <<>>]
    /\ UNCHANGED <<ndim, inputOk, held>>
    /\ AFrozen

\* s = axisZSigns()
AAxisZSigns ==
    /\ call' = [fn |-> "axisZSigns"]
    /\ result' = axisZSigns(matrix)
    /\ lastOp' = [op |-> "axisZSigns", i |-> 0, v |-> <<>>]
    /\ UNCHANGED <<ndim, matrix, inputOk, held, lasso, emitter>>
    /\ UNCHANGED svars

ANext ==
    \/ AGetMatrix \/ AGetAxis \/ ASetMatrix \/ ASetAxis \/ AHostWrite
    \/ AAxisZSigns

SpecA == PInit /\ [][ANext]_vars

\* C15: an array returned by getMatrix or getAxis, or handed to setMatrix or
\* setAxis, shares no storage with the Projection's matrix and was not written
\* by the call; a later write of the caller into it leaves the matrix as it was.
C15_NoAliasing ==
    /\ [](held.kind # "none" => (~held.shared /\ ~held.written))
    /\ [][lastOp'.op = "hostWrite" => matrix' = matrix]_vars

\* The caller wrote into the array it had handed to setMatrix, after the
\* matrix was set from it.
C15_Witness ==
    /\ lastOp.op = "hostWrite" /\ held.kind = "gaveMatrix" /\ ndim = 3
    /\ Orthonormal(matrix)
    /\ \E j \in 1..ndim : SqNorm(matrix[j]) > 1

\* C16: flipAxis(i) negates every entry of row i and keeps every other row;
\* a second flipAxis(i) gives back the matrix before the first.
C16_FlipAxis ==
    [][lastOp'.op = "flipAxis" =>
          LET i == lastOp'.i
          IN  /\ \A c \in 1..ndim : matrix'[i].w[c] = -(matrix[i].w[c])
              /\ matrix'[i].unit = matrix[i].unit
              /\ \A j \in 1..ndim : j # i => matrix'[j] = matrix[j]
              /\ flipAxis(matrix', i) = matrix]_vars

\* A row with three non-zero entries was flipped.
C16_Witness ==
    /\ lastOp.op = "flipAxis" /\ ndim = 3
    /\ SqNorm(matrix[lastOp.i]) = 3
    /\ Orthonormal(matrix)

\* C17: axisZSigns() returns one value per row, 1 when the row's column-2
\* entry is >= 0 and -1 when it is negative; for ndim < 3 every value is 1.
C17_AxisZSigns ==
    lastOp.op = "axisZSigns" =>
        /\ Len(result) = ndim
        /\ \A j \in 1..ndim :
              /\ result[j] \in {1, -1}
              /\ ndim < 3 => result[j] = 1
              /\ ndim >= 3 => (result[j] = 1 <=> matrix[j].w[DepthCol] >= 0)

\* Signs were read from a matrix with a negative, a zero and a positive
\* column-2 entry.
C17_Witness ==
    /\ lastOp.op = "axisZSigns" /\ ndim = 3
    /\ \E j, k, l \in 1..3 :
          /\ matrix[j].w[DepthCol] < 0 /\ result[j] = -1
          /\ matrix[k].w[DepthCol] = 0 /\ result[k] = 1
          /\ matrix[l].w[DepthCol] > 0 /\ result[l] = 1

Frozen == UNCHANGED <<ndim, matrix, lastOp, inputOk, held, lasso, emitter>> /\ UNCHANGED svars

FInit ==
    /\ ndim = 2
    /\ matrix = newProjection(2, NoInit)
    /\ lastOp = Op("create")
    /\ inputOk = TRUE
    /\ ScatterInit

\* Square matrices of integer rows.
RawMatrices(n) == [1..n -> {Raw(v) : v \in Vectors(n)}]

\* orthogonalize(matrix, priorityRowIndex)
CallOrthogonalize ==
    /\ call = NoCall
    /\ \E n \in 1..MaxDim : \E m \in RawMatrices(n), k \in 1..n :
        /\ call' = [fn |-> "orthogonalize", m |-> m, k |-> k]
        /\ result' = orthogonalize(m, k)
        /\ Frozen

\* orthogonalize(identity(n), priorityRowIndex)
CallOrthogonalizeIdentity ==
    /\ call = NoCall
    /\ \E n \in 1..(MaxDim + 1) : \E k \in 1..n :
        /\ call' = [fn |-> "orthogonalizeIdentity", m |-> identity(n), k |-> k]
        /\ result' = orthogonalize(identity(n), k)
        /\ Frozen

FNext == CallOrthogonalize \/ CallOrthogonalizeIdentity

SpecF == FInit /\ [][FNext]_vars

\* C11: orthogonalize(m, k) with row k non-zero returns, at index k, row k of
\* m divided by its norm.
C11_PriorityRowKept ==
    (call.fn = "orthogonalize" /\ dot(call.m[call.k], call.m[call.k]) > 0)
        => result[call.k] = normalizeVec(call.m[call.k])

\* A 3 x 3 call with a priority row other than row 0 whose other rows were
\* rotated, and the priority row only normalized.
C11_Witness ==
    /\ call.fn = "orthogonalize" /\ Len(call.m) = 3 /\ call.k = 3
    /\ SqNorm(result[3]) = 3
    /\ result[3] = normalizeVec(call.m[3])
    /\ result[1] # normalizeVec(call.m[1])

\* C12: orthogonalize of a matrix with linearly independent rows, for every
\* priority row, has pairwise orthogonal rows of unit norm.
C12_Orthonormal ==
    (call.fn = "orthogonalize" /\ Independent(call.m)) => Orthonormal(result)

\* A 3 x 3 matrix with independent rows, none orthogonal to another, was made
\* orthonormal.
C12_Witness ==
    /\ call.fn = "orthogonalize" /\ Len(call.m) = 3 /\ Independent(call.m)
    /\ \A i, j \in 1..3 : dot(call.m[i], call.m[j]) # 0
    /\ Orthonormal(result)

\* C13: orthogonalize(identity(n), k) is identity(n) for every n and k.
C13_IdentityFixed ==
    call.fn = "orthogonalizeIdentity" => result = identity(Len(call.m))

\* The 3 x 3 identity with the last row as priority row came back unchanged.
C13_Witness ==
    /\ call.fn = "orthogonalizeIdentity" /\ Len(call.m) = 3 /\ call.k = 3
    /\ result = identity(3)

\* ------------------------------------------ pointsInPolygon called on its own
GridPoints == {<<x, y>> : x \in 0..(2 * MaxGrid), y \in 0..(2 * MaxGrid)}
PolygonVertices == {<<2 * x, 2 * y>> : x \in 0..MaxGrid, y \in 0..MaxGrid}
Polygons(lo, hi) == UNION {[1..n -> PolygonVertices] : n \in lo..hi}

\* One rendered point against every polygon of 3 .. MaxPoly vertices.
CallLassoPoint ==
    /\ call = NoCall
    /\ \E p \in GridPoints, polygon \in Polygons(3, MaxPoly) :
        /\ call' = [fn |-> "lassoPoint", positions |-> <<p[1], p[2]>>, npoint |-> 1,
                    polygon |-> polygon, order |-> <<7>>]
        /\ result' = pointsInPolygon(<<p[1], p[2]>>, 1, polygon, <<7>>)
        /\ Frozen

\* Polygons of 0, 1 and 2 vertices.
CallLassoShort ==
    /\ call = NoCall
    /\ \E p \in GridPoints, q \in PolygonVertices, polygon \in Polygons(0, 2), np \in 0..2 :
        /\ call' = [fn |-> "lassoShort", positions |-> <<p[1], p[2], q[1], q[2]>>,
                    npoint |-> np, polygon |-> polygon, order |-> <<8, 7>>]
        /\ result' = pointsInPolygon(<<p[1], p[2], q[1], q[2]>>, np, polygon, <<8, 7>>)
        /\ Frozen

\* Cell centres: the rendered positions of the multi-slot calls.
SlotPoints == {<<2 * x + 1, 2 * y + 1>> : x \in 0..(MaxGrid - 1), y \in 0..(MaxGrid - 1)}
Interleave(pts) == [i \in 1..(2 * Len(pts)) |-> pts[(i + 1) \div 2][2 - (i % 2)]]
SlotOrders == {[s \in 1..MaxSlots |-> 10 + ((s + 1) % MaxSlots)],
               [s \in 1..MaxSlots |-> 10 + (s % 2)]}

\* A buffer of MaxSlots positions of which the first npoint are points.
CallLassoSlots ==
    /\ call = NoCall
    /\ \E pts \in [1..MaxSlots -> SlotPoints], np \in 0..MaxSlots,
          polygon \in Polygons(3, 3), order \in SlotOrders :
        /\ call' = [fn |-> "lassoSlots", positions |-> Interleave(pts), npoint |-> np,
                    polygon |-> polygon, order |-> order]
        /\ result' = pointsInPolygon(Interleave(pts), np, polygon, order)
        /\ Frozen

LNext == CallLassoPoint \/ CallLassoShort \/ CallLassoSlots

SpecL == FInit /\ [][LNext]_vars

\* Geometry the claims are stated in.
Cross(a, b, c) == (b[1] - a[1]) * (c[2] - a[2]) - (b[2] - a[2]) * (c[1] - a[1])
Between(u, v, w) == (u <= v /\ v <= w) \/ (w <= v /\ v <= u)
OnSegment(p, a, b) ==
    Cross(a, b, p) = 0 /\ Between(a[1], p[1], b[1]) /\ Between(a[2], p[2], b[2])
Succ(polygon, i) == IF i = Len(polygon) THEN 1 ELSE i + 1
OnBoundary(p, polygon) ==
    \E i \in 1..Len(polygon) : OnSegment(p, polygon[i], polygon[Succ(polygon, i)])
\* Crossing-number parity along the vertical ray from p upwards.
OddCrossingsUp(p, polygon) ==
    LET up(a, b) ==
            /\ (a[1] > p[1]) # (b[1] > p[1])
            /\ LET dx == b[1] - a[1]
                   num == (b[2] - a[2]) * (p[1] - a[1])
               IN  IF dx > 0 THEN (p[2] - a[2]) * dx < num ELSE (p[2] - a[2]) * dx > num
    IN  Cardinality({i \in 1..Len(polygon) :
                        up(polygon[i], polygon[Succ(polygon, i)])}) % 2 = 1
\* A convex polygon with strict turns: every vertex on one closed side of
\* every edge and no three consecutive vertices collinear.
Convex(polygon) ==
    \E sg \in {1, -1} :
        /\ \A i \in 1..Len(polygon) :
              sg * Cross(polygon[i], polygon[Succ(polygon, i)],
                         polygon[Succ(polygon, Succ(polygon, i))]) > 0
        /\ \A i, k \in 1..Len(polygon) :
              sg * Cross(polygon[i], polygon[Succ(polygon, i)], polygon[k]) >= 0
StrictlyInsideConvex(p, polygon) ==
    \E sg \in {1, -1} : \A i \in 1..Len(polygon) :
        sg * Cross(polygon[i], polygon[Succ(polygon, i)], p) > 0

LassoPoint == <<call.positions[1], call.positions[2]>>

\* C18 (as stated): a point on an edge or vertex of the polygon, or outside
\* it, is never returned.
C18_Original ==
    (call.fn = "lassoPoint" /\ result # <<>>) => ~OnBoundary(LassoPoint, call.polygon)

\* C18 (amended): a point off the boundary of a polygon of 3 or more vertices
\* is returned exactly when it is inside by crossing-number parity; for a
\* convex polygon that is exactly when it is strictly inside.
C18_OffBoundary ==
    (call.fn = "lassoPoint" /\ ~OnBoundary(LassoPoint, call.polygon)) =>
        /\ result \in {<<>>, <<call.order[1]>>}
        /\ result # <<>> <=> OddCrossingsUp(LassoPoint, call.polygon)
        /\ Convex(call.polygon) =>
              (result # <<>> <=> StrictlyInsideConvex(LassoPoint, call.polygon))

\* A point strictly inside a concave quadrilateral was returned.
C18_Witness ==
    /\ call.fn = "lassoPoint" /\ Len(call.polygon) = 4
    /\ ~Convex(call.polygon)
    /\ ~OnBoundary(LassoPoint, call.polygon)
    /\ \A i \in 1..4 : Cross(call.polygon[i], call.polygon[Succ(call.polygon, i)],
                             call.polygon[Succ(call.polygon, Succ(call.polygon, i))]) # 0
    /\ \A i, k \in 1..4 : i # k => call.polygon[i] # call.polygon[k]
    /\ result = <<call.order[1]>>

\* C19: a polygon of fewer than 3 vertices gives the empty list.
C19_ShortPolygon ==
    (call.fn = "lassoShort" /\ Len(call.polygon) < 3) => result = <<>>

\* A two-vertex polygon whose segment holds a point of the buffer gave the
\* empty list.
C19_Witness ==
    /\ call.fn = "lassoShort" /\ Len(call.polygon) = 2 /\ call.npoint = 2
    /\ call.polygon[1] # call.polygon[2]
    /\ OnSegment(<<call.positions[1], call.positions[2]>>, call.polygon[1], call.polygon[2])
    /\ result = <<>>

\* The slot's position alone is selected by the polygon.
SlotMatches(s) ==
    pointsInPolygon(<<call.positions[2 * s + 1], call.positions[2 * s + 2]>>, 1,
                    call.polygon, <<0>>) # <<>>
MatchingSlots == {s \in 0..(call.npoint - 1) : SlotMatches(s)}
\* The i-th matching slot in ascending order.
NthMatch(i) == CHOOSE s \in MatchingSlots : Cardinality({t \in MatchingSlots : t < s}) = i - 1

\* C20: the result lists order[s] once for each matching slot s < npoint, in
\* ascending slot order, and does not depend on the buffer past slot npoint.
C20_SlotOrder ==
    call.fn = "lassoSlots" =>
        /\ Len(result) = Cardinality(MatchingSlots)
        /\ \A i \in 1..Len(result) : result[i] = call.order[NthMatch(i) + 1]
        /\ \A t \in SlotPoints :
              LET other == [i \in 1..Len(call.positions) |->
                              IF i <= 2 * call.npoint THEN call.positions[i]
                              ELSE t[2 - (i % 2)]]
              IN  pointsInPolygon(other, call.npoint, call.polygon, call.order) = result
        /\ pointsInPolygon(SubSeq(call.positions, 1, 2 * call.npoint), call.npoint,
                           call.polygon, call.order) = result

\* Two of the first two slots matched, in an order array that is not
\* ascending, and the trailing slot, inside the polygon, was left out.
C20_Witness ==
    /\ call.fn = "lassoSlots" /\ call.npoint = 2
    /\ MatchingSlots = {0, 1}
    /\ call.order[1] > call.order[2]
    /\ pointsInPolygon(call.positions, MaxSlots, call.polygon, call.order) # result
    /\ result = <<call.order[1], call.order[2]>>

\* The data indices of the slots si, si + 1, .., npoint - 1 that the ray cast
\* alone finds inside, in slot order.
RECURSIVE ParityAlone(_, _, _, _, _)
ParityAlone(positions, npoint, polygon, order, si) ==
    IF si >= npoint THEN <<>>
    ELSE (IF rayCast(positions[2 * si + 1], positions[2 * si + 2], polygon)
          THEN <<order[si + 1]>> ELSE <<>>)
         \o ParityAlone(positions, npoint, polygon, order, si + 1)

\* Edges of the polygon that the ray from the first point crosses.
EdgesCrossed ==
    LET n == Len(call.polygon)
    IN  {i \in 1..n : edgeCrossed(call.positions[1], call.positions[2], call.polygon[i],
                                  call.polygon[IF i = 1 THEN n ELSE i - 1])}

\* C35: pointsInPolygon returns what the crossing-number test alone returns
\* for the first npoint points: neither the bounding-box test nor the
\* return for fewer than 3 vertices changes the result.
C35_PreFilter ==
    call.fn \in {"lassoPoint", "lassoShort", "lassoSlots"} =>
        result = ParityAlone(call.positions, call.npoint, call.polygon, call.order, 0)

\* A point left of the bounding box whose ray crosses two edges: the
\* pre-filter rejects it, the ray cast would have counted.
C35_Witness ==
    /\ call.fn = "lassoPoint"
    /\ call.positions[1] < polygonMin(call.polygon, 1)
    /\ Cardinality(EdgesCrossed) = 2
    /\ result = <<>>

\* ------------------------------------------------- the Lasso object alone
Pointers == {1, 2}
LassoPositions == {<<0, 0>>, <<4, 0>>, <<0, 4>>}
Keys == {"Escape", "a"}
\* Frames the Scatterplot hands to setRenderState.
RenderStates ==
    {[positions |-> <<1, 1, 3, 3>>, npoint |-> 2, order |-> <<12, 10>>],
     [positions |-> <<3, 3, 1, 1, 1, 2>>, npoint |-> 3, order |-> <<10, 12, 11>>]}

LFrozen ==
    UNCHANGED <<ndim, matrix, inputOk, held, emitter>> /\ UNCHANGED svars /\ UNCHANGED fvars

\* The lasso as a step finds it: nothing invoked, nothing thrown yet.
Fresh == [lasso EXCEPT !.out = <<>>, !.threw = FALSE]

\* v: for a pointer event whether a listener ran, for the others whether
\* the step came in mid-drag.
LOp(name, pid, flag) == [op |-> name, i |-> pid, v |-> <<flag>>]

\* A pointer goes down on the figure.
LPointerDown ==
    \E pid \in Pointers \ lasso.pointers, shift \in BOOLEAN, onHandle \in BOOLEAN,
       pos \in LassoPositions :
        LET l == [Fresh EXCEPT !.pointers = @ \cup {pid}]
        IN  /\ lasso' = IF l.baseListeners
                        THEN onPointerDown(l, shift, onHandle, pid, pos)
                        ELSE l
            /\ lastOp' = [op |-> "pointerDown", i |-> pid,
                          v |-> <<l.baseListeners, shift, onHandle>>]
            /\ LFrozen

\* A pointer moves over the figure.
LPointerMove ==
    \E pid \in Pointers, pos \in LassoPositions :
        /\ Len(lasso.polygon) < MaxVertices
        /\ lasso' = IF Fresh.dragListeners THEN onPointerMove(Fresh, pos) ELSE Fresh
        /\ lastOp' = LOp("pointerMove", pid, Fresh.dragListeners)
        /\ LFrozen

\* A pointer that is down goes up: the handler runs, then the browser drops
\* the pointer and the capture it had.
LPointerUp ==
    \E pid \in lasso.pointers :
        LET l == IF Fresh.dragListeners THEN onPointerUp(Fresh) ELSE Fresh
        IN  /\ lasso' = [l EXCEPT !.pointers = @ \ {pid},
                                  !.capture = IF @ = pid THEN 0 ELSE @]
            /\ lastOp' = LOp("pointerUp", pid, Fresh.dragListeners)
            /\ LFrozen

\* The browser cancels a pointer that is down (pointercancel, then
\* lostpointercapture): the Lasso listens to neither.
LPointerCancel ==
    \E pid \in lasso.pointers :
        /\ lasso' = [Fresh EXCEPT !.pointers = @ \ {pid},
                                  !.capture = IF @ = pid THEN 0 ELSE @]
        /\ lastOp' = LOp("pointerCancel", pid, FALSE)
        /\ LFrozen

LDblClick ==
    /\ lasso.baseListeners
    /\ lasso' = onDblClick(Fresh)
    /\ lastOp' = LOp("dblclick", 0, lasso.active)
    /\ LFrozen

LKeyDown ==
    \E key \in Keys :
        /\ lasso.baseListeners
        /\ lasso' = onKeyDown(Fresh, key)
        /\ lastOp' = LOp(IF key = "Escape" THEN "escape" ELSE "key", 0, lasso.active)
        /\ LFrozen

LClear ==
    /\ lasso.baseListeners
    /\ lasso' = clear(Fresh)
    /\ lastOp' = LOp("clear", 0, lasso.active)
    /\ LFrozen

LDestroy ==
    /\ lasso.baseListeners
    /\ lasso' = destroy(Fresh)
    /\ lastOp' = LOp("destroy", 0, lasso.active)
    /\ LFrozen

LSetRenderState ==
    \E rs \in RenderStates :
        /\ lasso.baseListeners
        /\ lasso' = setRenderState(Fresh, rs)
        /\ lastOp' = LOp("setRenderState", 0, TRUE)
        /\ LFrozen

LassoNext ==
    \/ LPointerDown \/ LPointerMove \/ LPointerUp \/ LPointerCancel
    \/ LDblClick \/ LKeyDown \/ LClear \/ LDestroy \/ LSetRenderState

SpecLasso == Init /\ [][LassoNext]_vars

Selects(l) == {k \in 1..Len(l.out) : l.out[k].fn = "onSelect"}

\* C21: a pointer-up that ends a drag invokes onSelect only with 3 or more
\* vertices and a non-empty match, once and with the matched indices;
\* otherwise it clears the polygon and invokes onClear only.  onSelect never
\* receives an empty list.
C21_PointerUp ==
    [][(lastOp'.op = "pointerUp" /\ lasso.active) =>
          LET indices == pointsInPolygon(lasso.positions, lasso.npoint,
                                         lasso.polygon, lasso.order)
          IN  IF Len(lasso.polygon) >= 3 /\ indices # <<>>
              THEN /\ lasso'.out = <<[fn |-> "onSelect", indices |-> indices]>>
                   /\ lasso'.polygon = lasso.polygon
              ELSE /\ lasso'.out = <<[fn |-> "onClear", indices |-> <<>>]>>
                   /\ lasso'.polygon = <<>>]_vars
    /\ [](\A k \in Selects(lasso) : lasso.out[k].indices # <<>>)
    /\ [][Selects(lasso') # {} => (lastOp'.op = "pointerUp" /\ lasso.active)]_vars

\* A drag of three vertices around a rendered point ended in onSelect.
C21_Witness ==
    /\ lastOp.op = "pointerUp"
    /\ Len(lasso.polygon) = 3
    /\ lasso.out = <<[fn |-> "onSelect", indices |-> <<12>>]>>

IdleEmpty(l) == ~l.active /\ ~l.dragListeners /\ l.polygon = <<>>
ShiftDown(op) == op.op = "pointerDown" /\ op.v = <<TRUE, TRUE, FALSE>>

\* C22: Escape and double-click leave the polygon empty and the lasso idle
\* with its move/up listeners detached, mid-drag too; from then on, until a
\* shift pointer-down on the background, no step appends a vertex or invokes
\* onSelect.
C22_Cancel ==
    /\ [][lastOp'.op \in {"escape", "dblclick"} => IdleEmpty(lasso')]_vars
    /\ [][(IdleEmpty(lasso) /\ ~ShiftDown(lastOp')) =>
             (IdleEmpty(lasso') /\ Selects(lasso') = {})]_vars

\* Escape came mid-drag, with two vertices captured, and cleared the lasso.
C22_Witness ==
    /\ lastOp.op = "escape" /\ lastOp.v = <<TRUE>>
    /\ lasso.capture # 0 /\ lasso.capture \in lasso.pointers
    /\ lasso.out = <<[fn |-> "onClear", indices |-> <<>>]>>
    /\ IdleEmpty(lasso)

\* C23 (as stated): every way a drag can end, an externally cancelled pointer
\* included, leaves active = false and the move/up listeners detached.
C23_Original ==
    [][(lasso.active /\ lastOp'.op \in {"pointerUp", "escape", "dblclick", "clear",
                                       "destroy", "pointerCancel"}) =>
          (~lasso'.active /\ ~lasso'.dragListeners)]_vars

\* C38 as stated: once Escape, a double-click or clear() has cancelled a
\* drag and the lasso is idle, the element no longer holds the pointer
\* capture and #pointerId is null.
C38_Original ==
    (lastOp.op \in {"escape", "dblclick", "clear"} /\ lastOp.v = <<TRUE>> /\ ~lasso.active)
        => (lasso.capture = 0 /\ lasso.pointerId = 0)

\* C24: a pointer-down without shift, or on an axis handle, leaves #active,
\* #polygon, #pointerId, the listeners, the path and the pointer capture as
\* they were; a drag starts only on a shift pointer-down off the handles.
C24_PointerDown ==
    /\ [][(lastOp'.op = "pointerDown" /\ ~ShiftDown(lastOp')) =>
             /\ lasso'.active = lasso.active
             /\ lasso'.polygon = lasso.polygon
             /\ lasso'.pointerId = lasso.pointerId
             /\ lasso'.dragListeners = lasso.dragListeners
             /\ lasso'.baseListeners = lasso.baseListeners
             /\ lasso'.pathShown = lasso.pathShown
             /\ lasso'.capture = lasso.capture
             /\ lasso'.out = <<>>]_vars
    /\ [][(lasso'.active /\ (~lasso.active \/ lasso'.polygon # lasso.polygon)) =>
             (ShiftDown(lastOp') \/ (lasso.active /\ lastOp'.op = "pointerMove"))]_vars
    /\ [][ShiftDown(lastOp') =>
             (lasso'.active /\ Len(lasso'.polygon) = 1 /\ lasso'.pointerId = lastOp'.i
              /\ lasso'.capture = lastOp'.i /\ lasso'.dragListeners)]_vars

\* A second pointer went down on a handle with shift held while a drag of two
\* vertices was under way, and the drag went on as it was.
C24_Witness ==
    /\ lastOp.op = "pointerDown" /\ lastOp.v = <<TRUE, TRUE, TRUE>>
    /\ lasso.active /\ Len(lasso.polygon) = 2
    /\ lasso.pointerId # lastOp.i /\ lasso.capture = lasso.pointerId

\* ---------------------------------------------- the Overlay's handle handlers
\* One entry of the list of calls a handler makes.
Called(fn, i, v) == [fn |-> fn, i |-> i, v |-> v]

\* .on("start", () => callbacks.onDragStart?.()): given says whether init was
\* handed the optional callback.
dragStart(given) == IF given THEN <<Called("onDragStart", 0, <<>>)>> ELSE <<>>

\* .on("end", () => callbacks.onDragEnd?.())
dragEnd(given) == IF given THEN <<Called("onDragEnd", 0, <<>>)>> ELSE <<>>

\* Variant: a drag move that does not notify.
dragMove_Silent(m, i, dx, dy) ==
    LET axis == dragVector(m, i, dx, dy)
    IN  [matrix |-> setAxis(m, i, axis),
         calls |-> <<Called("getAxis", i, <<>>), Called("setAxis", i, axis)>>]

\* .on("drag", ..) of a handle whose index among the nodes of its own
\* selection (towards or away) is i.
dragMove(m, i, dx, dy) ==
    LET axis == dragVector(m, i, dx, dy)
    IN  [matrix |-> setAxis(m, i, axis),
         calls |-> <<Called("getAxis", i, <<>>), Called("setAxis", i, axis),
                     Called("onProjectionChanged", 0, <<>>)>>]

\* Variant: a click handler that does not test the alt key.
flipHandler_AnyClick(m, i, altKey) ==
    [matrix |-> flipAxis(m, i),
     calls |-> <<Called("flipAxis", i, <<>>), Called("onProjectionChanged", 0, <<>>)>>]

\* makeFlipHandler(nodes): the click listener of handle i
flipHandler(m, i, altKey) ==
    IF ~altKey THEN [matrix |-> m, calls |-> <<>>]
    ELSE [matrix |-> flipAxis(m, i),
          calls |-> <<Called("flipAxis", i, <<>>), Called("onProjectionChanged", 0, <<>>)>>]

Sides == {"towards", "away"}

OFrozen == UNCHANGED <<ndim, inputOk, held, lasso, emitter>> /\ UNCHANGED svars

OCall(fn, side, i, dx, dy, flag) ==
    [fn |-> fn, side |-> side, i |-> i, dx |-> dx, dy |-> dy, flag |-> flag]

ODragStart ==
    \E side \in Sides, i \in 1..ndim, given \in BOOLEAN :
        /\ call' = OCall("dragStart", side, i, 0, 0, given)
        /\ result' = dragStart(given)
        /\ lastOp' = Op("dragStart")
        /\ UNCHANGED matrix
        /\ OFrozen

ODragMove ==
    \E side \in Sides, i \in 1..ndim, dx \in Coords, dy \in Coords :
        LET r == dragMove(matrix, i, dx, dy)
        IN  /\ HeightOk(matrix)
            /\ call' = OCall("drag", side, i, dx, dy, FALSE)
            /\ result' = r.calls
            /\ matrix' = r.matrix
            /\ lastOp' = Op("drag")
            /\ OFrozen

ODragEnd ==
    \E side \in Sides, i \in 1..ndim, given \in BOOLEAN :
        /\ call' = OCall("dragEnd", side, i, 0, 0, given)
        /\ result' = dragEnd(given)
        /\ lastOp' = Op("dragEnd")
        /\ UNCHANGED matrix
        /\ OFrozen

OClick ==
    \E side \in Sides, i \in 1..ndim, altKey \in BOOLEAN :
        LET r == flipHandler(matrix, i, altKey)
        IN  /\ call' = OCall("click", side, i, 0, 0, altKey)
            /\ result' = r.calls
            /\ matrix' = r.matrix
            /\ lastOp' = Op("click")
            /\ OFrozen

ONext == ODragStart \/ ODragMove \/ ODragEnd \/ OClick

SpecO == PInit /\ [][ONext]_vars

\* C25: a drag move on either handle of axis i reads row i, adds the delta to
\* its first two components, calls setAxis(i, .) once with the sum and then
\* onProjectionChanged once; drag start and drag end invoke at most their own
\* callback and leave the matrix alone.
C25_DragMove ==
    /\ [][call'.fn = "drag" =>
             LET i == call'.i
                 axis == [c \in 1..ndim |->
                            matrix[i].w[c] + (IF c = 1 THEN call'.dx
                                              ELSE IF c = 2 THEN call'.dy ELSE 0)]
             IN  /\ result' = <<Called("getAxis", i, <<>>), Called("setAxis", i, axis),
                                Called("onProjectionChanged", 0, <<>>)>>
                 /\ matrix' = setAxis(matrix, i, axis)]_vars
    /\ [][call'.fn = "dragStart" =>
             (matrix' = matrix /\ result' \in {<<>>, <<Called("onDragStart", 0, <<>>)>>})]_vars
    /\ [][call'.fn = "dragEnd" =>
             (matrix' = matrix /\ result' \in {<<>>, <<Called("onDragEnd", 0, <<>>)>>})]_vars

\* The away handle of axis 3 was dragged and the row moved.
C25_Witness ==
    /\ call.fn = "drag" /\ call.side = "away" /\ call.i = 3 /\ call.dx # 0
    /\ Len(result) = 3 /\ result[2].fn = "setAxis" /\ result[2].i = 3
    /\ matrix[3].w[1] # 0

BufferDataSets ==
    {[ndim |-> n, npoint |-> p, ncat |-> 0] : n \in LoadDims, p \in 1..MaxBufferPoints}

BLoadData == \E d \in BufferDataSets, size \in CanvasSizes : LoadDataOf(d, size)

BNext == BLoadData \/ Resize \/ Play \/ Pause \/ FrameCallback

SpecB == Init /\ [][BNext]_vars

\* C27: the buffers hold npoint + 4 * ndim vertices of the data set loaded
\* last, and every frame draws that data set and writes exactly that many
\* vertices.
C27_BufferSize ==
    /\ data # NoData => glCapacity = data.npoint + 4 * data.ndim
    /\ (lastOp.op = "frame" /\ drawn # NoFrame) =>
          /\ drawn.data = data
          /\ lastOp.v[2] = drawn.data.npoint + 4 * drawn.data.ndim
          /\ lastOp.v[2] = glCapacity

\* The second callback requested drew a data set of MaxBufferPoints points
\* that was loaded after the first callback: MaxBufferPoints + 8 vertices.
C27_Witness ==
    /\ lastOp.op = "frame" /\ lastOp.i = 2 /\ drawn # NoFrame
    /\ rendered.scales = 2
    /\ drawn.data.npoint = MaxBufferPoints
    /\ lastOp.v = <<2, MaxBufferPoints + 8>>

\* ------------------------------------------ #render: order and opacity
\* Points and render slots are 0-based as in the source; the sequences that
\* store them are 1-based, so point i is entry i + 1.

\* Variant: alphas that vanish at the camera too.
alphas_AtCamera(zcoords, cameraZ) ==
    [k \in 1..Len(zcoords) |-> IF zcoords[k] >= cameraZ THEN 0 ELSE 255]

\* const alphas = zcoords.map((z) => (z > cameraZ ? 0 : 255))
alphas(zcoords, cameraZ) ==
    [k \in 1..Len(zcoords) |-> IF zcoords[k] > cameraZ THEN 0 ELSE 255]

\* Variant: a sort that puts an element in front of its equals.
RECURSIVE sortOrder_Unstable(_, _)
sortOrder_Unstable(order, zcoords) ==
    IF Len(order) <= 1 THEN order
    ELSE LET front == sortOrder_Unstable(SubSeq(order, 1, Len(order) - 1), zcoords)
             a == order[Len(order)]
             before == SelectSeq(front, LAMBDA b : zcoords[b + 1] < zcoords[a + 1])
             after  == SelectSeq(front, LAMBDA b : zcoords[b + 1] >= zcoords[a + 1])
         IN  before \o <<a>> \o after

\* order.sort((a, b) => zcoords[a] - zcoords[b]): the sort of a typed array
\* is stable; here by insertion, an element going behind every element the
\* comparator does not put after it.
RECURSIVE sortOrder(_, _)
sortOrder(order, zcoords) ==
    IF Len(order) <= 1 THEN order
    ELSE LET front == sortOrder(SubSeq(order, 1, Len(order) - 1), zcoords)
             a == order[Len(order)]
             before == SelectSeq(front, LAMBDA b : zcoords[b + 1] - zcoords[a + 1] <= 0)
             after  == SelectSeq(front, LAMBDA b : zcoords[b + 1] - zcoords[a + 1] > 0)
         IN  before \o <<a>> \o after

\* for (i < npoint) order[i] = i; if (depthSort) order.sort(..)
renderOrder(zcoords, npoint, depthSort) ==
    LET order == [k \in 1..npoint |-> k - 1]
    IN  IF depthSort THEN sortOrder(order, zcoords) ELSE order

\* col[c4 + 3] = vis === null || vis.has(catIdx) ? alphas[i] : 0
opacity(vis, catIdx, alpha) ==
    IF vis.null \/ catIdx \in vis.members THEN alpha ELSE 0

\* The point loop of #render: for each slot si the point i = order[si] and the
\* opacity written to col[si * 4 + 3].
renderPoints(zcoords, labelIndices, cameraZ, depthSort, vis) ==
    LET npoint == Len(zcoords)
        al     == alphas(zcoords, cameraZ)
        order  == renderOrder(zcoords, npoint, depthSort)
    IN  [order |-> order,
         col3  |-> [si \in 1..npoint |->
                       opacity(vis, labelIndices[order[si] + 1], al[order[si] + 1])]]

\* ----------------------------------------------------------- depthScale
\* Exact fractions [n, d] with d >= 0; d = 0 with n > 0 is +Infinity, the
\* value of focalLength / 0.
Frac(n, d) ==
    IF d = 0 THEN [n |-> 1, d |-> 0]
    ELSE LET g == GCD(n, d)
             sg == IF d < 0 THEN -1 ELSE 1
         IN  [n |-> sg * (n \div g), d |-> sg * (d \div g)]
FracLess(a, b) == a.n * b.d < b.n * a.d
One == [n |-> 1, d |-> 1]

\* Variant: depthScale without the upper clamp.
depthScale_NoUpper(cam, z) ==
    LET scale == Frac(cam.focalLength, cam.focalLength + (cam.cameraZ - z))
    IN  IF FracLess(scale, cam.minDepthScale) THEN cam.minDepthScale ELSE scale

\* PerspectiveCamera.depthScale(z)
depthScale(cam, z) ==
    LET scale == Frac(cam.focalLength, cam.focalLength + (cam.cameraZ - z))
    IN  IF FracLess(scale, cam.minDepthScale) THEN cam.minDepthScale
        ELSE IF FracLess(One, scale) THEN One
        ELSE scale

\* Projection.depthScale(data, cameraZ, focalLength, min): zs are the depths
\* dot(data[i], col2) of the points.
projectionDepthScale(nd, zs, cameraZ, focalLength, min) ==
    IF nd < 3 THEN [k \in 1..Len(zs) |-> One]
    ELSE [k \in 1..Len(zs) |->
            LET out1 == Frac(focalLength, focalLength + (cameraZ - zs[k]))
                out2 == IF FracLess(out1, min) THEN min ELSE out1
            IN  IF FracLess(One, out2) THEN One ELSE out2]

\* ------------------------------------ the frame helpers called on their own
Depths == (0 - MaxDepth)..MaxDepth
Visibilities == {Null} \cup {SetOf(c) : c \in SUBSET Categories}
MinScales == {[n |-> 1, d |-> 4], [n |-> 1, d |-> 2], One}
Cameras ==
    [cameraZ : 0..MaxDepth, focalLength : 1..MaxDepth, minDepthScale : MinScales]
DepthSeqs(lo, hi) == UNION {[1..n -> Depths] : n \in lo..hi}

CallRenderPoints ==
    /\ call = NoCall
    /\ \E zcoords \in DepthSeqs(0, MaxRenderPoints), cameraZ \in 0..MaxDepth,
          depthSort \in BOOLEAN, vis \in Visibilities :
        \E labelIndices \in [1..Len(zcoords) -> Categories] :
            /\ call' = [fn |-> "renderPoints", zcoords |-> zcoords,
                        labelIndices |-> labelIndices, cameraZ |-> cameraZ,
                        depthSort |-> depthSort, vis |-> vis]
            /\ result' = renderPoints(zcoords, labelIndices, cameraZ, depthSort, vis)
            /\ Frozen

CallDepthScale ==
    /\ call = NoCall
    /\ \E cam \in Cameras, z \in (0 - MaxDepth)..(2 * MaxDepth + 1) :
        /\ call' = [fn |-> "depthScale", cam |-> cam, zs |-> <<z>>, nd |-> 3]
        /\ result' = <<depthScale(cam, z)>>
        /\ Frozen

CallProjectionDepthScale ==
    /\ call = NoCall
    /\ \E cam \in Cameras, nd \in Dims, z1 \in Depths, z2 \in (0 - MaxDepth)..(2 * MaxDepth + 1) :
        /\ call' = [fn |-> "projectionDepthScale", cam |-> cam, zs |-> <<z1, z2>>, nd |-> nd]
        /\ result' = projectionDepthScale(nd, <<z1, z2>>, cam.cameraZ, cam.focalLength,
                                          cam.minDepthScale)
        /\ Frozen

RNext == CallRenderPoints \/ CallDepthScale \/ CallProjectionDepthScale

SpecR == FInit /\ [][RNext]_vars

\* C28: the render order is a permutation of 0 .. npoint - 1; with depth
\* sorting the depth does not decrease along it and points of equal depth keep
\* their original order; without, it is the identity.
C28_RenderOrder ==
    call.fn = "renderPoints" =>
        LET n == Len(call.zcoords)
            order == result.order
        IN  /\ Len(order) = n
            /\ {order[si] : si \in 1..n} = 0..(n - 1)
            /\ call.depthSort =>
                  \A s \in 1..n, t \in 1..n :
                      s < t => \/ call.zcoords[order[s] + 1] < call.zcoords[order[t] + 1]
                               \/ /\ call.zcoords[order[s] + 1] = call.zcoords[order[t] + 1]
                                  /\ order[s] < order[t]
            /\ ~call.depthSort => \A si \in 1..n : order[si] = si - 1

\* Three points, the first and the last at the same depth behind the second,
\* were put in the order 0, 2, 1.
C28_Witness ==
    /\ call.fn = "renderPoints" /\ call.depthSort
    /\ Len(call.zcoords) = 3
    /\ call.zcoords[1] = call.zcoords[3] /\ call.zcoords[1] < call.zcoords[2]
    /\ result.order = <<0, 2, 1>>

PointAlpha(i) ==
    LET si == CHOOSE s \in 1..Len(result.order) : result.order[s] = i
    IN  result.col3[si]
Hidden(i) == ~call.vis.null /\ call.labelIndices[i + 1] \notin call.vis.members

\* C29 (as stated): alpha is 0 for a hidden category and for a point behind
\* or at the camera (z >= cameraZ), and full otherwise.
C29_Original ==
    call.fn = "renderPoints" =>
        \A i \in 0..(Len(call.zcoords) - 1) :
            PointAlpha(i) = IF Hidden(i) \/ call.zcoords[i + 1] >= call.cameraZ
                            THEN 0 ELSE 255

\* C29 (amended): alpha is 0 for a hidden category and for a point behind the
\* camera (z > cameraZ), and full (255) otherwise, a point at z = cameraZ
\* included.
C29_Alpha ==
    call.fn = "renderPoints" =>
        \A i \in 0..(Len(call.zcoords) - 1) :
            PointAlpha(i) = IF Hidden(i) \/ call.zcoords[i + 1] > call.cameraZ
                            THEN 0 ELSE 255

\* A sorted frame with a hidden point, a point behind the camera and a point
\* at the camera that is drawn in full.
C29_Witness ==
    /\ call.fn = "renderPoints" /\ call.depthSort /\ Len(call.zcoords) = 3
    /\ Hidden(0) /\ call.zcoords[1] < call.cameraZ
    /\ ~Hidden(1) /\ call.zcoords[2] > call.cameraZ
    /\ ~Hidden(2) /\ call.zcoords[3] = call.cameraZ
    /\ PointAlpha(0) = 0 /\ PointAlpha(1) = 0 /\ PointAlpha(2) = 255

C34_Original ==
    call.fn = "projectionDepthScale" =>
        \A k \in 1..Len(call.zs) :
            call.zs[k] > call.cam.cameraZ => result[k] = One

\* --------------------------------------------- the Emitter driven on its own
Payloads == {"p", "q"}

\* Listener bodies: one on(), one unsubscribe, or an unsubscribe then an on().
Bodies ==
    UNION {{<<[k |-> "on", fn |-> h]>>, <<[k |-> "off", fn |-> h]>>,
            <<[k |-> "off", fn |-> h], [k |-> "on", fn |-> h]>>} : h \in Listeners}
Hooks == {NoHook} \cup {[by |-> g, body |-> b] : g \in Listeners, b \in Bodies}

Ons(body) == Cardinality({k \in DOMAIN body : body[k].k = "on"})
Once(seq, fn) == Cardinality({k \in DOMAIN seq : seq[k] = fn}) <= 1
Registered(event) == {emitter.registered[event][k] : k \in DOMAIN emitter.registered[event]}

EFrozen ==
    UNCHANGED <<ndim, matrix, inputOk, held, lasso>> /\ UNCHANGED svars /\ UNCHANGED fvars

\* The emitter as a step finds it: no listener called yet.
Quiet == [emitter EXCEPT !.out = <<>>]

\* v: the event, and for an emit the payload and the on() / unsubscribe
\* calls made for the event before it.
EOp(name, fn, v) == [op |-> name, i |-> fn, v |-> v]

EOn ==
    \E event \in EventNames, fn \in Listeners :
        /\ Len(emitter.registered[event]) < MaxOn
        /\ emitter' = on(Quiet, event, fn)
        /\ lastOp' = EOp("on", fn, <<event>>)
        /\ EFrozen

\* An unsubscribe function exists once on() has returned it.
EUnsubscribe ==
    \E event \in EventNames, fn \in Listeners :
        /\ fn \in Registered(event)
        /\ emitter' = [unsubscribe(Quiet, event, fn) EXCEPT !.listeners[event] = compact(@)]
        /\ lastOp' = EOp("unsubscribe", fn, <<event>>)
        /\ EFrozen

EEmit ==
    \E event \in EventNames, arg \in Payloads, hook \in Hooks :
        /\ hook = NoHook \/ hook.by \in Members(emitter.listeners[event])
        /\ Len(emitter.registered[event]) + Ons(hook.body) <= MaxOn
        /\ \A k \in DOMAIN hook.body :
               hook.body[k].k = "off" => hook.body[k].fn \in Registered(event)
        /\ emitter' = emit(Quiet, event, arg, hook)
        /\ lastOp' = EOp("emit", 0, <<event, arg, emitter.registered[event],
                                     emitter.unsubscribed[event]>>)
        /\ EFrozen

ENext == EOn \/ EUnsubscribe \/ EEmit

SpecE == Init /\ [][ENext]_vars

CallsOf(fn) == {k \in DOMAIN emitter.out : emitter.out[k].k = "call" /\ emitter.out[k].fn = fn}
OffsOf(fn) == {k \in DOMAIN emitter.out : emitter.out[k].k = "off" /\ emitter.out[k].fn = fn}
FirstOn(seq, fn) == CHOOSE k \in DOMAIN seq : seq[k] = fn /\ \A j \in 1..(k - 1) : seq[j] # fn

\* What the emit of lastOp owes the function fn: at most one call, for the
\* emitted event and with its payload; no call if on() was never called with
\* it for the event or if its unsubscribe function was called before the
\* call; one call if on() was called with it before the emit and its
\* unsubscribe function was not called.
ListenerServed(fn) ==
    LET event == lastOp.v[1]
        before == lastOp.v[3]
    IN  /\ Cardinality(CallsOf(fn)) <= 1
        /\ \A k \in CallsOf(fn) :
               emitter.out[k].event = event /\ emitter.out[k].arg = lastOp.v[2]
        /\ fn \notin Registered(event) => CallsOf(fn) = {}
        /\ fn \in lastOp.v[4] => CallsOf(fn) = {}
        /\ \A k \in CallsOf(fn), j \in OffsOf(fn) : k < j
        /\ (/\ \E k \in DOMAIN before : before[k] = fn
            /\ fn \notin emitter.unsubscribed[event]) => Cardinality(CallsOf(fn)) = 1

\* Listeners that are both called are called in the order of their on() calls.
InRegistrationOrder(f, g) ==
    LET seq == emitter.registered[lastOp.v[1]]
    IN  (CallsOf(f) # {} /\ CallsOf(g) # {} /\ FirstOn(seq, f) < FirstOn(seq, g)) =>
            \A k \in CallsOf(f), j \in CallsOf(g) : k < j

\* C31 as stated: every listener registered with on(event, fn) is called
\* exactly once per emit of the event, in registration order, with the
\* payload, never for another event, and never after its unsubscribe
\* function was called, while the others are still called.
C31_Original ==
    lastOp.op = "emit" =>
        /\ \A fn \in Listeners : ListenerServed(fn)
        /\ \A f, g \in Listeners : InRegistrationOrder(f, g)

\* C31: the same, for the functions handed to on() once for the event.
C31_RegisteredOnce ==
    lastOp.op = "emit" =>
        LET seq == emitter.registered[lastOp.v[1]]
        IN  /\ \A fn \in Listeners : Once(seq, fn) => ListenerServed(fn)
            /\ \A f, g \in Listeners :
                   (Once(seq, f) /\ Once(seq, g)) => InRegistrationOrder(f, g)

\* An emit after listener 2, registered first, was unsubscribed: only
\* listener 1 is called.
C31_Witness ==
    /\ lastOp.op = "emit" /\ lastOp.v[1] = "select"
    /\ emitter.registered["select"] = <<2, 1>>
    /\ lastOp.v[4] = {2}
    /\ emitter.out = <<Logged("call", 1, "select", "q")>>

\* ------------------------------------------- the order orthogonalize works in
\* Row v less its projections onto the rows done[j], done[j + 1], ...
RECURSIVE LessProjections(_, _, _)
LessProjections(v, done, j) ==
    IF j > Len(done) THEN v
    ELSE LessProjections(subProjection(v, done[j]), done, j + 1)

\* Gram-Schmidt over the rows of m taken in the given order of indices: each
\* row less its projections onto the rows taken before it, then normalized.
RECURSIVE GramSchmidtIn(_, _, _, _)
GramSchmidtIn(m, order, p, done) ==
    IF p > Len(order)
    THEN [i \in 1..Len(m) |-> done[CHOOSE q \in 1..Len(order) : order[q] = i]]
    ELSE GramSchmidtIn(m, order, p + 1,
             Append(done, normalizeVec(LessProjections(m[order[p]], done, 1))))

\* The priority row, then the other rows by ascending index.
RECURSIVE Ascending(_, _, _)
Ascending(n, k, i) ==
    IF i > n THEN <<>>
    ELSE (IF i = k THEN <<>> ELSE <<i>>) \o Ascending(n, k, i + 1)
IndexOrder(n, k) == <<k>> \o Ascending(n, k, 1)

\* The priority row, then the other rows by position once the priority row
\* has changed places with row 0: row 0 comes where the priority row was.
SwappedOrder(n, k) == [p \in 1..n |-> IF p = 1 THEN k ELSE IF p = k THEN 1 ELSE p]

\* C32 as stated: orthogonalize(m, k) is Gram-Schmidt over the priority row
\* and then the other rows in ascending row index, so that row 0 is adjusted
\* against the priority row only.
C32_Original ==
    call.fn = "orthogonalize" =>
        result = GramSchmidtIn(call.m, IndexOrder(Len(call.m), call.k), 1, <<>>)

\* C32: orthogonalize(m, k) is Gram-Schmidt over the priority row and then
\* the other rows in the order of their places after the priority row has
\* changed places with row 0: rows 1 .. k-1, row 0, rows k+1 .. n-1.
C32_SwappedOrder ==
    call.fn = "orthogonalize" =>
        result = GramSchmidtIn(call.m, SwappedOrder(Len(call.m), call.k), 1, <<>>)

\* A 3 x 3 call with the last row as priority row: row 0 is adjusted against
\* row 1 as well, which is only normalized.
C32_Witness ==
    /\ call.fn = "orthogonalize" /\ call.k = 3
    /\ call.m = <<Raw(<<1, 0, 0>>), Raw(<<1, 1, 0>>), Raw(<<0, 0, 1>>)>>
    /\ result[2] = [w |-> <<1, 1, 0>>, unit |-> TRUE]
    /\ result[1] = [w |-> <<1, -1, 0>>, unit |-> TRUE]

\* ------------------------------- linalg.ts in arithmetic that can overflow
\* Numbers as exact fractions [n, d] with d > 0 in lowest terms, and the three
\* values a double has beside the finite ones.  A finite result of magnitude
\* above MaxFloat is replaced by the infinity of its sign, as a double's is
\* above Number.MAX_VALUE; rounding and underflow are not represented.
PosInf == [n |-> 1, d |-> 0]
NegInf == [n |-> -1, d |-> 0]
NaN == [n |-> 0, d |-> 0]
Finite(x) == x.d # 0
Sign(x) == IF x.n > 0 THEN 1 ELSE IF x.n < 0 THEN -1 ELSE 0
Inf(sign) == IF sign > 0 THEN PosInf ELSE NegInf

fpOf(n, d) ==
    LET g == GCD(n, d)
        sg == IF d < 0 THEN -1 ELSE 1
        x == [n |-> sg * (n \div g), d |-> sg * (d \div g)]
    IN  IF Abs(x.n) > MaxFloat * x.d THEN Inf(x.n) ELSE x
fpInt(i) == fpOf(i, 1)

\* a * b
fpMul(a, b) ==
    IF a = NaN \/ b = NaN THEN NaN
    ELSE IF Finite(a) /\ Finite(b) THEN fpOf(a.n * b.n, a.d * b.d)
    ELSE IF Sign(a) * Sign(b) = 0 THEN NaN
    ELSE Inf(Sign(a) * Sign(b))

\* a + b
fpAdd(a, b) ==
    IF a = NaN \/ b = NaN THEN NaN
    ELSE IF Finite(a) /\ Finite(b) THEN fpOf(a.n * b.d + b.n * a.d, a.d * b.d)
    ELSE IF ~Finite(a) /\ ~Finite(b) THEN (IF a = b THEN a ELSE NaN)
    ELSE IF Finite(a) THEN b ELSE a

\* a - b
fpSub(a, b) == fpAdd(a, [b EXCEPT !.n = -b.n])

\* a / b
fpDiv(a, b) ==
    IF a = NaN \/ b = NaN THEN NaN
    ELSE IF ~Finite(a) /\ ~Finite(b) THEN NaN
    ELSE IF ~Finite(b) THEN fpInt(0)
    ELSE IF ~Finite(a) THEN Inf(Sign(a) * (IF Sign(b) < 0 THEN -1 ELSE 1))
    ELSE IF b.n = 0 THEN (IF a.n = 0 THEN NaN ELSE Inf(Sign(a)))
    ELSE fpOf(a.n * b.d, a.d * b.n)

RECURSIVE Root(_, _)
Root(n, r) == IF r * r >= n THEN r ELSE Root(n, r + 1)

\* Math.sqrt(a), for the squares of fractions
fpSqrt(a) ==
    IF a = NaN \/ Sign(a) < 0 THEN NaN
    ELSE IF a = PosInf THEN PosInf
    ELSE [n |-> Root(a.n, 0), d |-> Root(a.d, 0)]

\* part_007:54-58  dot(u, v): sum = 0, then sum += u[i] * v[i] from the left
RECURSIVE fpDotFrom(_, _, _, _)
fpDotFrom(u, v, i, sum) ==
    IF i > Len(u) THEN sum
    ELSE fpDotFrom(u, v, i + 1, fpAdd(sum, fpMul(u[i], v[i])))
fpDot(u, v) == fpDotFrom(u, v, 1, fpInt(0))

\* part_007:61-63
fpNorm2(v) == fpSqrt(fpDot(v, v))
\* part_007:71-73
fpVecSub(a, b) == [c \in 1..Len(a) |-> fpSub(a[c], b[c])]
\* part_007:76-78
fpScale(x, v) == [c \in 1..Len(v) |-> fpMul(x, v[c])]

\* Variant: normalizeVec that divides by the norm whatever it is.
fpNormalizeVec_Always(v) ==
    LET n == fpNorm2(v) IN [c \in 1..Len(v) |-> fpDiv(v[c], n)]

\* part_007:159-163  normalizeVec: if (n <= 0) return v (false for NaN)
fpNormalizeVec(v) ==
    LET n == fpNorm2(v)
    IN  IF n # NaN /\ n.n <= 0 THEN v ELSE [c \in 1..Len(v) |-> fpDiv(v[c], n)]

\* part_007:143-149  the inner loop body: if (dd > 0) (false for NaN)
fpSubProjection(mi, mj) ==
    LET d  == fpDot(mj, mi)
        dd == fpDot(mj, mj)
    IN  IF dd # NaN /\ dd.n > 0 THEN fpVecSub(mi, fpScale(fpDiv(d, dd), mj)) ELSE mi

RECURSIVE fpInnerLoop(_, _, _)
fpInnerLoop(m, i, j) ==
    IF j >= i THEN m
    ELSE fpInnerLoop([m EXCEPT ![i] = fpSubProjection(m[i], m[j])], i, j + 1)

RECURSIVE fpOuterLoop(_, _)
fpOuterLoop(m, i) ==
    IF i > Len(m) THEN m
    ELSE LET p == fpInnerLoop(m, i, 1)
         IN  fpOuterLoop([p EXCEPT ![i] = fpNormalizeVec(p[i])], i + 1)

\* What a call leaves: the matrix it returned, or that it threw.
Returned(rows) == [threw |-> FALSE, rows |-> rows]
TypeError == [threw |-> TRUE, rows |-> <<>>]

\* part_007:128-157  orthogonalize.  For the empty matrix matrix[0] is
\* undefined, and normalizeVec(undefined) reads undefined.length in dot.
fpOrthogonalize(m, priorityRowIndex) ==
    IF Len(m) = 0 THEN TypeError
    ELSE LET s  == swapRows(m, 1, priorityRowIndex)
             s0 == [s EXCEPT ![1] = fpNormalizeVec(s[1])]
         IN  Returned(swapRows(fpOuterLoop(s0, 2), 1, priorityRowIndex))

\* Entries of the matrices: small ones, and ones that make sums overflow.
FloatEntries == {0 - MaxFloat, -3, 0, 1, 3, 4, MaxFloat}
\* Rows whose norm is a fraction or overflows.
FloatRows(n) ==
    {v \in [1..n -> FloatEntries] :
        LET q == fpDot([c \in 1..n |-> fpInt(v[c])], [c \in 1..n |-> fpInt(v[c])])
        IN  q = PosInf \/ Root(q.n, 0) * Root(q.n, 0) = q.n}

\* orthogonalize(matrix, priorityRowIndex) of a 0 x 0, 1 x 1 or 2 x 2 matrix
CallFpOrthogonalize ==
    /\ call = NoCall
    /\ \E n \in 0..2 : \E rows \in [1..n -> FloatRows(n)], k \in 1..(IF n = 0 THEN 1 ELSE n) :
        LET m == [i \in 1..n |-> [c \in 1..n |-> fpInt(rows[i][c])]]
        IN  /\ call' = [fn |-> "fpOrthogonalize", m |-> m, k |-> k]
            /\ result' = fpOrthogonalize(m, k)
            /\ Frozen

NNext == CallFpOrthogonalize

SpecN == FInit /\ [][NNext]_vars

FpZero(v) == \A c \in 1..Len(v) : v[c] = fpInt(0)
AllFinite(m) == \A i \in 1..Len(m) : \A c \in 1..Len(m[i]) : Finite(m[i][c])

\* The rows of the result are finite, each the zero vector or of length 1,
\* and orthogonal to each other; a zero row of the matrix is a zero row of
\* the result.
Settled(m, res) ==
    LET r == res.rows
    IN  /\ ~res.threw /\ AllFinite(r)
        /\ \A i \in 1..Len(r) : FpZero(r[i]) \/ fpDot(r[i], r[i]) = fpInt(1)
        /\ \A i, j \in 1..Len(r) : i # j => fpDot(r[i], r[j]) = fpInt(0)
        /\ \A i \in 1..Len(m) : FpZero(m[i]) => FpZero(r[i])

\* No dot product of two rows, or of a row and a unit vector, overflows.
Moderate(m) ==
    \A i \in 1..Len(m) : \A c \in 1..Len(m) :
        Finite(m[i][c]) /\ Len(m) * m[i][c].n * m[i][c].n <= MaxFloat * m[i][c].d * m[i][c].d

\* C33 as stated: orthogonalize of any matrix of finite entries returns, and
\* returns finite rows, zero rows left as they are and skipped by the rows
\* after them.
C33_Original ==
    call.fn = "fpOrthogonalize" => Settled(call.m, result)

\* C33: the same for a matrix with at least one row whose entries are small
\* enough that no dot product overflows.
C33_Moderate ==
    (call.fn = "fpOrthogonalize" /\ Len(call.m) > 0 /\ Moderate(call.m))
        => Settled(call.m, result)

\* A 2 x 2 call whose second row equals the first: it becomes the zero
\* vector under the subtraction and is returned as the zero vector.
C33_Witness ==
    /\ call.fn = "fpOrthogonalize" /\ call.k = 1
    /\ call.m = <<<<fpInt(3), fpInt(4)>>, <<fpInt(3), fpInt(4)>>>>
    /\ result = Returned(<<<<fpOf(3, 5), fpOf(4, 5)>>, <<fpInt(0), fpInt(0)>>>>)

====
